---- MODULE Spec2Model ----
(***************************************************************************)
(* Model of the service messaging layer: MessageBroker (topic routing on   *)
(* service_exchange), the services built on it (FrontendService,           *)
(* BackendService, DatabaseService), ServiceBroker, RabbitMQClient,        *)
(* MessageConsumer and the sender/receiver task pair.                      *)
(***************************************************************************)
EXTENDS Integers, Sequences, FiniteSets, TLC

VARIABLES
    queues,            \* broker side: queue name -> sequence of messages
    bindings,          \* broker side: set of [queue, pattern] on service_exchange
    channel,           \* MessageBroker.channel per service: "none" | "open" | "closed"
                       \* | "channel_closed" (closed channel on an open connection)
    nextId,            \* number of uuid4 message ids drawn so far
    lastSend,          \* outcome of the last send call (api, result, publishes)
    consumer,          \* consume path each service runs: "none" or a path name
    consuming,         \* is the consume loop of the service running
    invoked,           \* message id -> number of invocations of the service handler
    settled,           \* message id -> acknowledgements issued for it
    lastDelivery,      \* the last delivery: service, message, handler, outcome
    pending_requests,  \* FrontendService.pending_requests: request id -> entry
    displayed,         \* request id -> the results printed to the UI for it
    nextReq,           \* number of request ids drawn so far
    now,               \* wall clock (time.time())
    client,            \* RabbitMQClient._connection: "none" | "open" | "stale" |
                       \* "channel_closed" (open, its channel closed by the server)
    loop,              \* per service: its run loop ("new" | "alive" | "ended" |
                       \* "stopped") and the failures it has met
    waiting,           \* sender.py processes: correlation id -> "waiting" | "done"
    pc,                \* where a thread stands inside a call: "main" (the caller),
                       \* "consumer" (the consumer thread), "publisher"
    declared,          \* queue -> "absent" | "durable" | "transient" on the server
    consumer_tags,     \* MessageBroker.consumer_tags: service -> queues with a tag
    callbacks,         \* service -> the callback its consumer invokes and the one
                       \* passed to the last registration call (0: none)
    supervisor,        \* rabbitmq_supervisor: its globals, where its main loop
                       \* stands, its clock and the restarts it carried out
    rmq,               \* RabbitMQClient: _consumer_threads and _callbacks (queue ->
                       \* thread / callback), the consumer threads it started and
                       \* the outcome of the last consume / stop_consuming call
    listener,          \* service_listener: where the service thread stands, the
                       \* run it serves, the run a stop was handled for, the
                       \* commands handled and the statuses published
    composer,           \* composer.py: the services still to command, the results
                       \* so far, the exit status and the commands sent
    events             \* producer.py and consumer.py: the two processes and the events sent and received

vars == <<queues, bindings, channel, nextId, lastSend, consumer, consuming,
          invoked, settled, lastDelivery, pending_requests, displayed, nextReq, now,
          client, loop, waiting, pc, declared, consumer_tags, callbacks,
          supervisor, rmq, listener, composer,
          events>>

(***************************************************************************)
(* Bounds                                                                  *)
(***************************************************************************)
MaxMsgs == 3        \* messages published in one run
MaxRouteMsgs == 2   \* messages published in one run of the routing scenario
MaxSendMsgs == 2    \* messages published in one run of the sending scenario
MaxReqs == 2        \* correlated requests issued in one run
MaxTime == 3        \* clock ticks in one run
MaxTimedMsgs == 2   \* messages published in one run of the timeout scenario
MaxDeliveries == 2  \* deliveries of one message that are followed
MaxClock == 900     \* the supervisor's clock at which its loop is last entered
MaxThreads == 2     \* consumer threads a RabbitMQClient starts in one run
MaxCommands == 4    \* control commands the service listener handles in one run
MaxRuns == 2        \* runs of the composer script
MaxFailures == 2    \* connection failures of one service that are followed

(***************************************************************************)
(* Strings.  Python strings that are formatted or split are sequences of   *)
(* characters; Chars gives the characters of the names used.               *)
(***************************************************************************)
None == "None"

Chars(name) ==
    CASE name = "frontend" -> <<"f","r","o","n","t","e","n","d">>
      [] name = "backend"  -> <<"b","a","c","k","e","n","d">>
      [] name = "database" -> <<"d","a","t","a","b","a","s","e">>
      [] name = "backend_interactive" ->
             <<"b","a","c","k","e","n","d","_","i","n","t","e","r","a","c","t","i","v","e">>
      [] name = "a.b"      -> <<"a",".","b">>
      [] name = "to"       -> <<"t","o">>
      [] name = "*"        -> <<"*">>
      [] name = "_queue"   -> <<"_","q","u","e","u","e">>
      [] name = "task_queue" -> <<"t","a","s","k","_","q","u","e","u","e">>
      [] name = "response_queue" ->
             <<"r","e","s","p","o","n","s","e","_","q","u","e","u","e">>
      [] name = "event-notifications" ->
             <<"e","v","e","n","t","-","n","o","t","i","f","i","c","a","t","i","o","n","s">>
      [] name = "event_notifications" ->
             <<"e","v","e","n","t","_","n","o","t","i","f","i","c","a","t","i","o","n","s">>
      [] name = "artist-updates" ->
             <<"a","r","t","i","s","t","-","u","p","d","a","t","e","s">>
      [] name = "user-preferences" ->
             <<"u","s","e","r","-","p","r","e","f","e","r","e","n","c","e","s">>
      [] OTHER             -> <<>>

Dot == <<".">>

\* str.split('.'): the segments between dots (always at least one segment)
RECURSIVE SplitFrom(_, _, _)
SplitFrom(s, i, cur) ==
    IF i > Len(s) THEN <<cur>>
    ELSE IF s[i] = "." THEN <<cur>> \o SplitFrom(s, i + 1, <<>>)
    ELSE SplitFrom(s, i + 1, Append(cur, s[i]))

Split(s) == SplitFrom(s, 1, <<>>)

ServiceIdentity == {"frontend", "backend", "database"}

\* the service_name values a MessageBroker is constructed with
BrokerNames == ServiceIdentity \cup {"backend_interactive", "a.b"}

\* the name whose characters are seg, None when it is no known name
NameOf(seg) ==
    IF \E n \in BrokerNames : Chars(n) = seg
    THEN CHOOSE n \in BrokerNames : Chars(n) = seg
    ELSE None

(***************************************************************************)
(* MessageBroker constants                                                 *)
(***************************************************************************)
QueueName(service) == Chars(service) \o Chars("_queue")
FRONTEND_QUEUE == QueueName("frontend")
BACKEND_QUEUE  == QueueName("backend")
DATABASE_QUEUE == QueueName("database")
QueueNames == {FRONTEND_QUEUE, BACKEND_QUEUE, DATABASE_QUEUE}
TASK_QUEUE == Chars("task_queue")
RESPONSE_QUEUE == Chars("response_queue")
\* consumer.py and producer.py declare the same three queues
ConsumerQueues == {Chars("event-notifications"), Chars("artist-updates"),
                   Chars("user-preferences")}
\* backend_example.py EVENT_QUEUE
EVENT_QUEUE == Chars("event_notifications")
AllQueues == QueueNames \cup {TASK_QUEUE, RESPONSE_QUEUE} \cup ConsumerQueues
             \cup {EVENT_QUEUE}
NameOfQueue(q) ==
    CASE q = FRONTEND_QUEUE -> "frontend_queue"
      [] q = BACKEND_QUEUE  -> "backend_queue"
      [] q = DATABASE_QUEUE -> "database_queue"
      [] q = RESPONSE_QUEUE -> "response_queue"
      [] OTHER              -> "task_queue"

\* "*.to.<service>"
Pattern(service) == Chars("*") \o Dot \o Chars("to") \o Dot \o Chars(service)

\* a binding declared with another service's pattern
MutConnectBindings ==
    { [queue |-> FRONTEND_QUEUE, pattern |-> Pattern("backend")],
      [queue |-> BACKEND_QUEUE,  pattern |-> Pattern("backend")],
      [queue |-> DATABASE_QUEUE, pattern |-> Pattern("database")] }

\* the three queue_bind calls of connect()
ConnectBindings ==
    { [queue |-> FRONTEND_QUEUE, pattern |-> Pattern("frontend")],
      [queue |-> BACKEND_QUEUE,  pattern |-> Pattern("backend")],
      [queue |-> DATABASE_QUEUE, pattern |-> Pattern("database")] }

\* topic exchange: the pattern and the key match word by word, "*" is one word
TopicMatches(pattern, key) ==
    LET p == Split(pattern)
        k == Split(key)
    IN  /\ Len(p) = Len(k)
        /\ \A i \in 1..Len(p) : p[i] = Chars("*") \/ p[i] = k[i]

\* f"{self.service_name}.to.<target>"
RoutingKey(service_name, target) ==
    Chars(service_name) \o Dot \o Chars("to") \o Dot \o Chars(target)

send_to_frontend(service_name) == RoutingKey(service_name, "frontend")
\* the key of another target pasted into send_to_backend
Mut_send_to_backend(service_name) == RoutingKey(service_name, "frontend")
send_to_backend(service_name)  == RoutingKey(service_name, "backend")
send_to_database(service_name) == RoutingKey(service_name, "database")

send_to(service_name, target) ==
    CASE target = "frontend" -> send_to_frontend(service_name)
      [] target = "backend"  -> send_to_backend(service_name)
      [] target = "database" -> send_to_database(service_name)

(***************************************************************************)
(* Messages.  A dict is a function from its keys to their values; a body   *)
(* is the text json.dumps produced or a text that is no JSON.              *)
(***************************************************************************)
EmptyDict == [k \in {} |-> None]
Get(d, k) == IF k \in DOMAIN d THEN d[k] ELSE None
Put(d, k, v) == [x \in (DOMAIN d) \cup {k} |-> IF x = k THEN v ELSE d[x]]

json_dumps(d) == [text |-> "json", value |-> d]
RawText == [text |-> "raw", value |-> EmptyDict]
JSONDecodeError == [error |-> "JSONDecodeError"]
json_loads(body) == IF body.text = "json" THEN body.value ELSE JSONDecodeError
IsDict(v) == v # JSONDecodeError

SERVICE_EXCHANGE == "service_exchange"
DefaultExchange == ""

\* what basic_publish hands to the broker
Message(id, exchange, routing_key, correlation_id, source, target, body, cause) ==
    [ id |-> id, exchange |-> exchange, routing_key |-> routing_key,
      correlation_id |-> correlation_id,
      headers |-> [source_service |-> source, target_service |-> target],
      body |-> body,
      reply_to |-> None,
      cause |-> cause,         \* id of the request this message answers, 0 if none
      deliveries |-> 0 ]

\* the broker routes a published message to the queues whose binding matches
Route(qs, bs, m) ==
    [q \in DOMAIN qs |->
        IF m.exchange = SERVICE_EXCHANGE
        THEN IF \E b \in bs : b.queue = q /\ TopicMatches(b.pattern, m.routing_key)
             THEN Append(qs[q], m) ELSE qs[q]
        ELSE IF m.routing_key = q THEN Append(qs[q], m) ELSE qs[q]]

\* MessageBroker._send_targeted_message: the message published (if any) and
\* what the caller gets
MutSwallow_send_targeted_message(service_name, message, routing_key, id, cause) ==
    LET parts == Split(routing_key)
        target == IF Len(parts) = 3 THEN NameOf(parts[3]) ELSE None
        wrapped == Put(Put(Put(message, "source_service", service_name),
                           "target_service", target), "timestamp", now)
    IN  IF Len(parts) = 3 /\ channel[service_name] = "open"
        THEN [ published |-> <<Message(id, SERVICE_EXCHANGE, routing_key, id,
                                       service_name, target, json_dumps(wrapped), cause)>>,
               result |-> "message_id" ]
        ELSE [ published |-> <<>>, result |-> "message_id" ]

_send_targeted_message(service_name, message, routing_key, id, cause) ==
    LET parts == Split(routing_key)
        \* source, _, target = routing_key.split('.')
        target == IF Len(parts) = 3 THEN NameOf(parts[3]) ELSE None
        wrapped == Put(Put(Put(message, "source_service", service_name),
                           "target_service", target), "timestamp", now)
    IN  IF Len(parts) # 3 THEN [ published |-> <<>>, result |-> "raise" ]
        ELSE IF channel[service_name] # "open"
        THEN [ published |-> <<>>, result |-> "raise" ]
        ELSE [ published |-> <<Message(id, SERVICE_EXCHANGE, routing_key, id,
                                       service_name, target, json_dumps(wrapped), cause)>>,
               result |-> "message_id" ]

\* the broker after a send call: every message the call published is routed
Publish(qs, out) ==
    IF Len(out.published) = 0 THEN qs ELSE Route(qs, bindings, out.published[1])

(***************************************************************************)
(* Consume paths.  A callback's outcome: was the registered handler        *)
(* invoked, the acknowledgements it issued for the delivery tag, and       *)
(* whether an exception left it.                                           *)
(***************************************************************************)
Outcome(inv, acks, raised) ==
    [invoked |-> inv, acks |-> acks, raised |-> raised]

\* <Service>.process_message of FrontendService, BackendService and
\* DatabaseService: try: loads, dispatch, ack / except Exception: ack
process_message(m, handler_raises) ==
    Outcome(TRUE, <<"ack">>, FALSE)

\* ServiceBroker.receive_messages.wrapped_callback
wrapped_callback(m, handler_raises) ==
    IF ~IsDict(json_loads(m.body)) THEN Outcome(FALSE, <<"nack_drop">>, FALSE)
    ELSE IF handler_raises THEN Outcome(TRUE, <<"nack_requeue">>, FALSE)
    ELSE Outcome(TRUE, <<"ack">>, FALSE)

\* backend_example.process_message: loads, work, ack; nothing is caught
example_process_message(m, handler_raises) ==
    IF ~IsDict(json_loads(m.body)) \/ handler_raises
    THEN Outcome(TRUE, <<>>, TRUE)
    ELSE Outcome(TRUE, <<"ack">>, FALSE)

\* MessageBroker.consume_with_callback.callback_wrapper around a callback
callback_wrapper(inner) ==
    IF inner.raised THEN Outcome(inner.invoked, Append(inner.acks, "ack"), FALSE)
    ELSE inner

\* MessageBroker.start_consuming.default_callback: loads, log, ack
default_callback(m) ==
    IF ~IsDict(json_loads(m.body)) THEN Outcome(FALSE, <<>>, TRUE)
    ELSE Outcome(FALSE, <<"ack">>, FALSE)

\* MessageBroker.get_next_message: basic_get(auto_ack=True), then loads
get_next_message(m) ==
    IF ~IsDict(json_loads(m.body)) THEN Outcome(FALSE, <<"auto">>, TRUE)
    ELSE Outcome(TRUE, <<"auto">>, FALSE)

\* RabbitMQClient._consume_messages.message_handler with auto_ack=False:
\* a body that is no JSON is handed to the callback as text
message_handler(m, handler_raises) ==
    IF handler_raises THEN Outcome(TRUE, <<"nack_requeue">>, FALSE)
    ELSE Outcome(TRUE, <<"ack">>, FALSE)

\* MessageConsumer.handle_message raises ValueError for an unknown type
handle_message_raises(message) ==
    Get(message, "type") \notin {"calculation", "query"}

\* MessageConsumer.process_message: loads, handle_message, ack /
\* except Exception: nack(requeue=True)
MessageConsumer_process_message(m) ==
    LET message == json_loads(m.body)
    IN  IF ~IsDict(message) THEN Outcome(FALSE, <<"nack_requeue">>, FALSE)
        ELSE IF handle_message_raises(message)
        THEN Outcome(TRUE, <<"nack_requeue">>, FALSE)
        ELSE Outcome(TRUE, <<"ack">>, FALSE)

\* backend_service_example.setup_message_consumer.message_callback
message_callback(m, handler_raises) ==
    IF ~IsDict(json_loads(m.body)) THEN Outcome(FALSE, <<"ack">>, FALSE)
    ELSE Outcome(TRUE, <<"ack">>, FALSE)

Paths == {"service", "servicebroker", "callback", "default", "get_next",
          "client", "consumer", "example"}

\* the callback the broker library invokes on each consume path
Consume(path, m, handler_raises) ==
    CASE path = "service"       -> callback_wrapper(process_message(m, handler_raises))
      [] path = "servicebroker" -> callback_wrapper(wrapped_callback(m, handler_raises))
      [] path = "callback"      -> callback_wrapper(example_process_message(m, handler_raises))
      [] path = "default"       -> default_callback(m)
      [] path = "get_next"      -> get_next_message(m)
      [] path = "client"        -> message_handler(m, handler_raises)
      [] path = "consumer"      -> MessageConsumer_process_message(m)
      [] path = "example"       -> message_callback(m, handler_raises)

\* the broker's side of a delivery: the first acknowledgement settles it
Settlement(out) == IF Len(out.acks) = 0 THEN "unacked" ELSE out.acks[1]

\* basic_qos(prefetch_count=1) is set on every consume path but
\* RabbitMQClient._consume_messages, which sets none (0: no limit)
prefetch_count(path) == IF path = "client" THEN 0 ELSE 1

\* the queue after a delivery.  A message that is not settled, or is rejected
\* with requeue, goes back to its place at the head; k counts the messages
\* behind it that the server had already pushed to the consumer, which is
\* possible only without a prefetch limit
AfterDelivery(q, out, k) ==
    IF Settlement(out) \in {"ack", "nack_drop", "auto"} THEN Tail(q)
    ELSE SubSeq(Tail(q), 1, k) \o <<[Head(q) EXCEPT !.deliveries = @ + 1]>>
         \o SubSeq(Tail(q), k + 1, Len(Tail(q)))

(***************************************************************************)
(* Service handlers                                                        *)
(***************************************************************************)
\* str(uuid.uuid4()): the n-th id drawn differs from all drawn before
uuid4(n) == ToString(n)

RequestIds == {uuid4(n) : n \in 1..MaxReqs}

Remove(d, k) == [x \in (DOMAIN d) \ {k} |-> d[x]]

\* FrontendService.process_message: the handler the message type selects
FrontendHandler(message) ==
    CASE Get(message, "type") = "event_notification" -> "handle_event_notification"
      [] Get(message, "type") = "search_results"     -> "handle_search_results"
      [] Get(message, "type") = "operation_status"   -> "handle_operation_status"
      [] Get(message, "type") = "action_received"    -> "handle_action_received"
      [] OTHER                                       -> "unknown_type"

\* handle_search_results without the test of the pending table
MutAlways_handle_search_results(pending, shown, message) ==
    LET request_id == Get(message, "request_id")
    IN  [pending |-> Remove(pending, request_id),
         shown   |-> [shown EXCEPT ![request_id] =
                            Append(@, Get(message, "results"))]]

\* handle_search_results emptying the pending table when it resolves a reply
MutClear_handle_search_results(pending, shown, message) ==
    LET request_id == Get(message, "request_id")
    IN  IF request_id \in DOMAIN pending
        THEN [pending |-> EmptyDict,
              shown   |-> [shown EXCEPT ![request_id] =
                                 Append(@, Get(message, "results"))]]
        ELSE [pending |-> pending, shown |-> shown]

\* FrontendService.handle_search_results: the pending table and the UI after it
handle_search_results(pending, shown, message) ==
    LET request_id == Get(message, "request_id")
    IN  IF request_id \in DOMAIN pending
        THEN [pending |-> Remove(pending, request_id),
              shown   |-> [shown EXCEPT ![request_id] =
                                 Append(@, Get(message, "results"))]]
        ELSE [pending |-> pending, shown |-> shown]

\* a dispatch on the request id instead of the type
MutById_FrontendProcess(pending, shown, m) ==
    LET message == json_loads(m.body)
    IN  IF ~IsDict(message)
        THEN [handler |-> "none", pending |-> pending, shown |-> shown]
        ELSE IF Get(message, "request_id") \in DOMAIN pending
        THEN [handler |-> "handle_search_results"] @@
             handle_search_results(pending, shown, message)
        ELSE [handler |-> "unknown_type", pending |-> pending, shown |-> shown]

\* what FrontendService.process_message does with a delivered body
FrontendProcess(pending, shown, m) ==
    LET message == json_loads(m.body)
    IN  IF ~IsDict(message)
        THEN [handler |-> "none", pending |-> pending, shown |-> shown]
        ELSE IF FrontendHandler(message) = "handle_search_results"
        THEN [handler |-> "handle_search_results"] @@
             handle_search_results(pending, shown, message)
        ELSE [handler |-> FrontendHandler(message), pending |-> pending, shown |-> shown]

\* DatabaseService.handle_search_request: the reply it builds
search_results_reply(message) ==
    ("type" :> "search_results") @@
    ("request_id" :> (IF "request_id" \in DOMAIN message
                      THEN message["request_id"] ELSE "unknown")) @@
    ("count" :> "0")

\* DatabaseService.handle_write_request: the reply it builds
write_response_reply(message) ==
    ("type" :> "write_response") @@
    ("operation" :> Get(message, "operation")) @@
    ("status" :> (IF Get(message, "operation") \in {"insert", "update", "delete"}
                  THEN "success" ELSE "error"))

\* DatabaseService.process_message: the replies it sends, as <<target, dict>>
DatabaseReplies(m) ==
    LET message == json_loads(m.body)
        source  == m.headers.source_service
    IN  IF ~IsDict(message) \/ source \notin {"backend", "frontend"} THEN <<>>
        ELSE IF Get(message, "type") = "search_request"
        THEN <<[target |-> source, message |-> search_results_reply(message)]>>
        ELSE IF Get(message, "type") = "write_request"
        THEN <<[target |-> source, message |-> write_response_reply(message)]>>
        ELSE <<>>

(***************************************************************************)
(* State after construction                                                *)
(***************************************************************************)
NoSend == [api |-> "none", broker |-> "none", target |-> "none", result |-> "none",
           delta |-> 0, id |-> 0, payload |-> EmptyDict]
NoDelivery == [service |-> "none", id |-> 0, path |-> "none", handler |-> "none",
               settlement |-> "none", raised |-> FALSE, stopped |-> FALSE,
               parsed |-> FALSE, callback |-> 0,
               message |-> Message(0, DefaultExchange, <<>>, 0, None, None, RawText, 0)]

Queued(qs) == Len(qs[FRONTEND_QUEUE]) + Len(qs[BACKEND_QUEUE])
              + Len(qs[DATABASE_QUEUE]) + Len(qs[TASK_QUEUE]) + Len(qs[RESPONSE_QUEUE])

\* rabbitmq_supervisor.py configuration (seconds)
CHECK_INTERVAL == 30
MAX_RESTART_ATTEMPTS == 3
RESTART_COOLDOWN == 300

\* the supervisor's globals when main() starts; time.time() is far more than
\* RESTART_COOLDOWN past the initial last_restart_time of 0
NoSupervisor ==
    [at |-> "while", running |-> TRUE, restart_count |-> 0,
     last_restart_time |-> 0, time |-> RESTART_COOLDOWN, restarts |-> <<>>]

InitWith(paths) ==
    /\ queues = [q \in AllQueues |-> <<>>]
    /\ bindings = {}
    /\ channel = [b \in BrokerNames |-> "none"]
    /\ nextId = 0
    /\ lastSend = NoSend
    /\ consumer = paths
    /\ consuming = [s \in ServiceIdentity |-> FALSE]
    /\ invoked = [i \in 1..MaxMsgs |-> 0]
    /\ settled = [i \in 1..MaxMsgs |-> <<>>]
    /\ lastDelivery = NoDelivery
    /\ pending_requests = EmptyDict
    /\ displayed = [r \in RequestIds |-> <<>>]
    /\ nextReq = 0
    /\ now = 0
    /\ client = "none"
    /\ loop = [s \in ServiceIdentity |-> [state |-> "new", failures |-> 0]]
    /\ waiting = [i \in {} |-> "waiting"]
    /\ pc = [t \in {"main", "consumer", "publisher"} |-> [at |-> "idle"]]
    /\ declared = [q \in AllQueues |-> "absent"]
    /\ consumer_tags = [s \in ServiceIdentity |-> {}]
    /\ callbacks = [s \in ServiceIdentity |-> [invokes |-> 0, passed |-> 0]]
    /\ supervisor = NoSupervisor
    /\ rmq = [_consumer_threads |-> EmptyDict, _callbacks |-> EmptyDict,
              threads |-> <<>>,
              call |-> [api |-> "none", result |-> "none", active |-> FALSE]]
    /\ listener = [at |-> "none", run |-> 0, stopped |-> 0, commands |-> 0,
                   published |-> <<>>]
    /\ composer = [mode |-> "none", todo |-> <<>>, results |-> EmptyDict, exit |-> "none",
                   sent |-> <<>>, runs |-> 0]
    /\ events = [producer |-> "none", consumer |-> "none", published |-> <<>>, received |-> <<>>]

(***************************************************************************)
(* Operations                                                              *)
(***************************************************************************)
\* how a connect() call can go: everything works, the broker cannot be
\* reached, or a declaration on the new channel fails
ConnectOutcomes == {"ok", "unreachable", "declare_failed"}

\* channel.queue_declare(queue, durable) for the queues of names, in order: the
\* server accepts a queue that is absent or exists with the same durability
\* and refuses any other (406 PRECONDITION_FAILED, the call raises); the
\* queues before the refused one are declared
queue_declare(d, names, kind) ==
    LET refused == {i \in 1..Len(names) : d[names[i]] \notin {"absent", kind}}
        done == {names[i] : i \in {j \in 1..Len(names) : \A r \in refused : j < r}}
    IN  [ok |-> refused = {},
         declared |-> [q \in DOMAIN d |-> IF q \in done THEN kind ELSE d[q]]]

\* MessageBroker.connect / setup_rabbitmq_queues: the three standard queues,
\* each with durable=True
setup_queues(d) ==
    queue_declare(d, <<FRONTEND_QUEUE, BACKEND_QUEUE, DATABASE_QUEUE>>, "durable")

\* connect() without the cleanup of its except branch: a failed declaration
\* leaves the new channel in place
MutNoCleanup_connect(ch, outcome) ==
    IF ch \in {"open", "undeclared"} THEN ch
    ELSE CASE outcome = "ok"             -> "open"
           [] outcome = "unreachable"    -> "none"
           [] outcome = "declare_failed" -> "undeclared"

\* MessageBroker.connect: the channel after the call.  An open connection is
\* kept with the channel it has; otherwise a new channel is the broker's only
\* when every declaration succeeded, and any failure leaves connection =
\* channel = None
connect(ch, outcome) ==
    IF ch \in {"open", "channel_closed"} THEN ch
    ELSE IF outcome = "ok" /\ setup_queues(declared).ok THEN "open" ELSE "none"

\* the bindings on the broker after a connect() call
Declared(bs, ch, outcome) ==
    IF ch \notin {"open", "channel_closed"} /\ outcome = "ok"
       /\ setup_queues(declared).ok
    THEN bs \cup ConnectBindings ELSE bs

\* the queues on the server after a connect() call that reached it
DeclaredQueues(d, ch, outcome) ==
    IF ch \in {"open", "channel_closed"} \/ outcome = "unreachable" THEN d
    ELSE setup_queues(d).declared

\* MessageBroker.connect: open a connection and channel, declare the exchange,
\* the three queues and their bindings; on failure both are None
Connect(b) ==
    /\ channel[b] # "open"
    /\ \E outcome \in ConnectOutcomes :
         /\ channel' = [channel EXCEPT ![b] = connect(channel[b], outcome)]
         /\ bindings' = Declared(bindings, channel[b], outcome)
         /\ declared' = DeclaredQueues(declared, channel[b], outcome)
    /\ UNCHANGED <<queues, nextId, lastSend, consumer, consuming, invoked, settled,
                   lastDelivery, pending_requests, displayed, nextReq, now, client,
                   loop, waiting,
                   pc, consumer_tags, callbacks, supervisor,
                   rmq, listener, composer, events>>

\* a connection loss that also empties the pending table
MutReset_ConnectionLost(b) ==
    /\ channel[b] = "open"
    /\ channel' = [channel EXCEPT ![b] = "none"]
    /\ consuming' = IF b \in ServiceIdentity
                    THEN [consuming EXCEPT ![b] = FALSE] ELSE consuming
    /\ pending_requests' = EmptyDict
    /\ UNCHANGED <<queues, bindings, nextId, lastSend, consumer, invoked, settled,
                   lastDelivery, displayed, nextReq, now, client, loop, waiting,
                   pc, declared, consumer_tags, callbacks,
                   supervisor, rmq, listener, composer, events>>

\* the connection of a broker object is lost; a consume loop running on it
\* ends in consume_with_callback's StreamLostError branch
ConnectionLost(b) ==
    /\ channel[b] = "open"
    /\ IF b \in ServiceIdentity /\ consuming[b]
       THEN /\ channel' = [channel EXCEPT ![b] = "none"]
            /\ consuming' = [consuming EXCEPT ![b] = FALSE]
       ELSE /\ channel' = [channel EXCEPT ![b] = "closed"]
            /\ UNCHANGED consuming
    /\ UNCHANGED <<queues, bindings, nextId, lastSend, consumer, invoked, settled,
                   lastDelivery, pending_requests, displayed, nextReq, now, client,
                   loop, waiting,
                   pc, declared, consumer_tags, callbacks,
                   supervisor, rmq, listener, composer, events>>

\* the queue consume_with_callback, start_consuming and get_next_message select
\* from service_name
ConsumeQueue(service_name) ==
    CASE service_name = "frontend" -> FRONTEND_QUEUE
      [] service_name = "backend"  -> BACKEND_QUEUE
      [] service_name = "database" -> DATABASE_QUEUE

\* consume_with_callback / start_consuming / receive_messages: the consumer of
\* the service's own queue is registered on an open channel
UsesBroker(path) == path \in {"service", "servicebroker", "callback", "default", "get_next"}

StartConsuming(s) ==
    /\ consumer[s] # "none"
    /\ ~consuming[s]
    /\ UsesBroker(consumer[s]) => channel[s] = "open"
    /\ consuming' = [consuming EXCEPT ![s] = TRUE]
    /\ consumer_tags' = IF UsesBroker(consumer[s]) /\ consumer[s] # "get_next"
                        THEN [consumer_tags EXCEPT ![s] = @ \cup {ConsumeQueue(s)}]
                        ELSE consumer_tags
    /\ UNCHANGED <<queues, bindings, channel, nextId, lastSend, consumer, invoked,
                   settled, lastDelivery, pending_requests, displayed, nextReq, now,
                   client,
                   loop, waiting,
                   pc, declared, callbacks, supervisor, rmq,
                   listener, composer, events>>

\* MessageBroker.send_to_<target>(message) called on the broker of service b
SendTo(b, target, message) ==
    /\ nextId < MaxMsgs
    /\ LET out == _send_targeted_message(b, message, send_to(b, target), nextId + 1, 0)
       IN  /\ queues' = Publish(queues, out)
           /\ nextId' = nextId + Len(out.published)
           /\ lastSend' = [api |-> "send_to", broker |-> b, target |-> target,
                           result |-> out.result,
                           delta |-> Queued(queues') - Queued(queues),
                           id |-> IF nextId' > nextId THEN nextId' ELSE 0,
                           payload |-> message]
    /\ UNCHANGED <<bindings, channel, consumer, consuming, invoked, settled,
                   lastDelivery, pending_requests, displayed, nextReq, now, client,
                   loop, waiting,
                   pc, declared, consumer_tags, callbacks,
                   supervisor, rmq, listener, composer, events>>

\* send_message building the key from to_service without validating it
MutNoCheck_send_message(service_type, to_service, message_type, data, id) ==
    LET message == data @@ ("type" :> message_type)
        out == _send_targeted_message(service_type, message,
                                      RoutingKey(service_type, to_service), id, 0)
    IN  IF out.result = "raise"
        THEN [published |-> out.published, result |-> None]
        ELSE out

\* ServiceBroker.send_message(to_service, message_type, data): what is published
\* and what the caller gets
send_message(service_type, to_service, message_type, data, id) ==
    IF to_service \notin {"frontend", "backend", "database"}
    THEN [published |-> <<>>, result |-> None]
    ELSE LET message == data @@ ("type" :> message_type)   \* {"type": ..., **data}
             out == _send_targeted_message(service_type, message,
                                           send_to(service_type, to_service), id, 0)
         IN  IF out.result = "raise"
             THEN [published |-> out.published, result |-> None]
             ELSE out

ServiceBrokerSend(s, to_service, message_type, data) ==
    /\ nextId < MaxMsgs
    /\ LET out == send_message(s, to_service, message_type, data, nextId + 1)
       IN  /\ queues' = Publish(queues, out)
           /\ nextId' = nextId + Len(out.published)
           /\ lastSend' = [api |-> "send_message", broker |-> s, target |-> to_service,
                           result |-> out.result,
                           delta |-> Queued(queues') - Queued(queues),
                           id |-> IF nextId' > nextId THEN nextId' ELSE 0,
                           payload |-> data]
    /\ UNCHANGED <<bindings, channel, consumer, consuming, invoked, settled,
                   lastDelivery, pending_requests, displayed, nextReq, now, client,
                   loop, waiting,
                   pc, declared, consumer_tags, callbacks,
                   supervisor, rmq, listener, composer, events>>

\* RabbitMQClient.publish(queue_name, message): connect() if needed, declare the
\* queue, publish through the default exchange; True, or False on any failure
publish(conn, queue_name, message, reachable, id) ==
    LET body == IF message.isdict THEN json_dumps(message.value)
                ELSE RawText                                  \* str(message)
    IN  IF conn = "none" /\ ~reachable
        THEN [published |-> <<>>, result |-> "False", conn |-> "none"]
        ELSE IF conn = "stale"
        THEN [published |-> <<>>, result |-> "False", conn |-> "none"]
        ELSE IF conn = "channel_closed"
                \/ ~queue_declare(declared, <<queue_name>>, "durable").ok
        THEN \* declare_queue(durable=True) is refused or the channel is closed:
             \* basic_publish raises on the closed channel of an open connection
             [published |-> <<>>, result |-> "False", conn |-> "channel_closed"]
        ELSE [published |-> <<Message(id, DefaultExchange, queue_name, 0,
                                      None, None, body, 0)>>,
              result |-> "True", conn |-> "open"]

ClientPublish(queue_name, message) ==
    /\ nextId < MaxMsgs
    /\ pc["publisher"].at = "idle"
    /\ \E api \in {"answers", "fails"} \cup (IF client = "none" THEN {"silent"} ELSE {}) :
         IF api = "silent"
         THEN \* connect() -> ensure_service_running(): requests.get(...) is called
              \* without a timeout, and the control API never answers
              /\ pc' = [pc EXCEPT !["publisher"] = [at |-> "requests.get"]]
              /\ UNCHANGED <<queues, nextId, client, lastSend, declared>>
         ELSE LET out == publish(client, queue_name, message, api = "answers",
                                 nextId + 1)
              IN  /\ queues' = Publish(queues, out)
                  /\ nextId' = nextId + Len(out.published)
                  /\ client' = out.conn
                  /\ declared' = IF out.result = "True"
                                 THEN queue_declare(declared, <<queue_name>>,
                                                    "durable").declared
                                 ELSE declared
                  /\ lastSend' = [api |-> "publish", broker |-> "client",
                                  target |-> NameOfQueue(queue_name),
                                  result |-> out.result,
                                  delta |-> Queued(queues') - Queued(queues),
                                  id |-> IF nextId' > nextId THEN nextId' ELSE 0,
                                  payload |-> message.value]
                  /\ UNCHANGED pc
    /\ UNCHANGED <<bindings, channel, consumer, consuming, invoked, settled,
                   lastDelivery, pending_requests, displayed, nextReq, now,
                   loop, waiting, consumer_tags, callbacks,
                   supervisor, rmq, listener, composer, events>>

\* the client's connection dies; is_open stays true until the next I/O
ClientLost ==
    /\ client = "open"
    /\ client' = "stale"
    /\ UNCHANGED <<queues, bindings, channel, nextId, lastSend, consumer, consuming,
                   invoked, settled, lastDelivery, pending_requests, displayed,
                   nextReq, now,
                   loop, waiting,
                   pc, declared, consumer_tags, callbacks,
                   supervisor, rmq, listener, composer, events>>

\* did the handler the path hands the parsed message to raise
HandlerRaised(path, m, handler_raises) ==
    /\ IsDict(json_loads(m.body))
    /\ CASE path = "consumer" -> handle_message_raises(json_loads(m.body))
         [] path \in {"default", "get_next"} -> FALSE
         [] OTHER -> handler_raises

\* the broker delivers the head of the service's queue to its consumer, the
\* callback runs to completion and the broker applies its acknowledgement
Deliver(s, handler_raises) ==
    /\ consumer[s] # "none"
    /\ consuming[s]
    /\ Len(queues[ConsumeQueue(s)]) > 0
    /\ Head(queues[ConsumeQueue(s)]).deliveries < MaxDeliveries
    /\ \E k \in IF prefetch_count(consumer[s]) = 1 THEN {0}
                 ELSE 0..(Len(queues[ConsumeQueue(s)]) - 1) :
       LET q   == ConsumeQueue(s)
           m   == Head(queues[q])
           out == Consume(consumer[s], m, handler_raises)
           fe  == IF consumer[s] = "service" /\ s = "frontend"
                  THEN FrontendProcess(pending_requests, displayed, m)
                  ELSE [handler |-> IF out.invoked THEN "callback" ELSE "none",
                        pending |-> pending_requests, shown |-> displayed]
           replies == IF consumer[s] = "service" /\ s = "database" /\ ~handler_raises
                      THEN DatabaseReplies(m) ELSE <<>>
           sent == IF Len(replies) = 0 THEN [published |-> <<>>, result |-> "none"]
                   ELSE _send_targeted_message("database", replies[1].message,
                            send_to("database", replies[1].target), nextId + 1, m.id)
           rest == [queues EXCEPT ![q] = AfterDelivery(queues[q], out, k)]
       IN  /\ Len(replies) > 0 => nextId < MaxMsgs
           /\ queues' = Publish(rest, sent)
           /\ nextId' = nextId + Len(sent.published)
           /\ invoked' = [invoked EXCEPT ![m.id] = @ + (IF out.invoked THEN 1 ELSE 0)]
           /\ settled' = [settled EXCEPT ![m.id] = @ \o out.acks]
           /\ consuming' = IF out.raised /\ consumer[s] # "get_next"
                           THEN [consuming EXCEPT ![s] = FALSE] ELSE consuming
           /\ pending_requests' = fe.pending
           /\ displayed' = fe.shown
           /\ lastDelivery' = [service |-> s, id |-> m.id, path |-> consumer[s],
                               handler |-> fe.handler, settlement |-> Settlement(out),
                               raised |-> HandlerRaised(consumer[s], m, handler_raises),
                               stopped |-> consuming[s] /\ ~consuming'[s],
                               parsed |-> IsDict(json_loads(m.body)),
                               callback |-> IF out.invoked THEN callbacks[s].invokes
                                            ELSE 0,
                               message |-> m]
    /\ UNCHANGED <<bindings, channel, lastSend, consumer, nextReq, now, client,
                   loop, waiting,
                   pc, declared, consumer_tags, callbacks,
                   supervisor, rmq, listener, composer, events>>

(***************************************************************************)
(* Routing: any broker sends to any target, every service consumes its     *)
(* own queue                                                               *)
(***************************************************************************)
Notification == ("type" :> "event_notification")

InitRoute ==
    \E p \in {"service", "default", "get_next"}, c \in ServiceIdentity :
        InitWith([s \in ServiceIdentity |-> IF s = c THEN p ELSE "none"])

RouteSenders == ServiceIdentity \cup {"backend_interactive"}

NextRoute ==
    \/ \E b \in RouteSenders : Connect(b)
    \/ \E s \in ServiceIdentity : StartConsuming(s)
    \/ \E b \in RouteSenders, t \in ServiceIdentity :
          nextId < MaxRouteMsgs /\ channel[b] = "open" /\ SendTo(b, t, Notification)
    \/ \E s \in ServiceIdentity : Deliver(s, FALSE)

SpecRoute == InitRoute /\ [][NextRoute]_vars

\* the messages waiting in the broker's queues
InQueues == UNION { {queues[q][i] : i \in 1..Len(queues[q])} : q \in AllQueues }
QueuesHolding(m) == {q \in AllQueues : \E i \in 1..Len(queues[q]) : queues[q][i] = m}
LastSegment(key) == Split(key)[Len(Split(key))]

\* C1: the message a successful send_to_<t> of broker s publishes has the routing
\* key "s.to.t": its dotted segments are s, "to", t, the last one is t, and the
\* target_service written into the headers and the body is t.
C1_RoutingKey ==
    (lastSend.api = "send_to" /\ lastSend.result = "message_id") =>
        \A m \in InQueues :
            m.id = nextId =>
                /\ Split(m.routing_key) = <<Chars(lastSend.broker), Chars("to"),
                                            Chars(lastSend.target)>>
                /\ LastSegment(m.routing_key) = Chars(lastSend.target)
                /\ m.headers.target_service = lastSend.target
                /\ Get(json_loads(m.body), "target_service") = lastSend.target
                /\ \A other \in InQueues :
                      (other.headers.source_service = lastSend.broker
                       /\ other.headers.target_service = lastSend.target)
                      => other.routing_key = m.routing_key

C1_Witness ==
    /\ lastSend.api = "send_to" /\ lastSend.result = "message_id"
    /\ lastSend.broker = "backend_interactive" /\ lastSend.target = "database"
    /\ \E m \in InQueues : m.id = nextId /\ m.id = 2
    /\ \E m \in InQueues : m.id = 1 /\ m.headers = [source_service |-> "backend_interactive",
                                                   target_service |-> "database"]

\* C2: a message published with key "s.to.t" waits in t's queue and in no other,
\* and a handler run through MessageBroker gets only messages addressed to its
\* own service.
C2_OnlyAddressed ==
    /\ \A m \in InQueues :
          m.exchange = SERVICE_EXCHANGE =>
             QueuesHolding(m) = {LastSegment(m.routing_key) \o Chars("_queue")}
    /\ (lastDelivery.service # "none" /\ lastDelivery.message.exchange = SERVICE_EXCHANGE) =>
          /\ LastSegment(lastDelivery.message.routing_key) = Chars(lastDelivery.service)
          /\ lastDelivery.message.headers.target_service = lastDelivery.service

C2_Witness ==
    /\ lastDelivery.service = "backend" /\ lastDelivery.handler = "callback"
    /\ lastDelivery.message.headers.source_service = "frontend"
    /\ Len(queues[DATABASE_QUEUE]) = 1
    /\ Head(queues[DATABASE_QUEUE]).headers.source_service = "frontend"

(***************************************************************************)
(* Sending: the three send interfaces on connections that come and go      *)
(***************************************************************************)
SendBrokers == {"frontend", "a.b"}

ClientMessages == {[isdict |-> TRUE, value |-> ("event" :> "user_signup")],
                   [isdict |-> FALSE, value |-> EmptyDict]}

InitSend == InitWith([s \in ServiceIdentity |-> "none"])

NextSend ==
    \/ \E b \in SendBrokers : Connect(b)
    \/ \E b \in SendBrokers : ConnectionLost(b)
    \/ \E b \in SendBrokers, t \in ServiceIdentity :
          nextId < MaxSendMsgs /\ SendTo(b, t, Notification)
    \/ \E t \in ServiceIdentity \cup {"unknown"} :
          /\ nextId < MaxSendMsgs
          /\ ServiceBrokerSend("frontend", t, "notification",
                               ("message" :> "Action received"))
    \/ \E q \in {TASK_QUEUE, BACKEND_QUEUE}, message \in ClientMessages :
          nextId < MaxSendMsgs /\ ClientPublish(q, message)
    \/ ClientLost

SpecSend == InitSend /\ [][NextSend]_vars

\* C10: a send call that returns success (a message id, True) has put exactly one
\* message into the broker, and a call that did not publish reports the failure
\* (raise, None, False); no call publishes more than once.
C10_NoSilentDrop ==
    lastSend.api # "none" =>
        /\ lastSend.result \in {"message_id", "True"} => lastSend.delta = 1
        /\ lastSend.delta = 0 => lastSend.result \in {"raise", None, "False"}
        /\ lastSend.delta \in {0, 1}

C10_Witness ==
    /\ lastSend.api = "send_to" /\ lastSend.result = "raise" /\ lastSend.delta = 0
    /\ lastSend.broker = "frontend" /\ channel["frontend"] = "closed"
    /\ Len(queues[BACKEND_QUEUE]) = 1
    /\ client = "stale"

\* C11: ServiceBroker.send_message to a service other than frontend, backend
\* and database returns None, publishes nothing and changes nothing of the
\* broker or of the connection.
C11_UnknownTargetRejected ==
    [][(lastSend' # lastSend /\ lastSend'.api = "send_message"
        /\ lastSend'.target \notin ServiceIdentity)
          => /\ lastSend'.result = None
             /\ lastSend'.delta = 0
             /\ UNCHANGED <<queues, bindings, channel, nextId, client>>]_vars

\* an unknown target was refused on a connection that would have published
C11_Witness ==
    /\ lastSend.api = "send_message" /\ lastSend.target = "unknown"
    /\ lastSend.result = None
    /\ channel["frontend"] = "open"

(***************************************************************************)
(* Consuming: the frontend sends update requests to the backend, a client  *)
(* publishes into the backend's queue, the backend consumes on one path    *)
(***************************************************************************)
UpdateRequest == ("type" :> "user_action") @@ ("action" :> "update")

\* FrontendService.send_update_request
SendUpdateRequest == SendTo("frontend", "backend", UpdateRequest)

InitConsume ==
    \E p \in Paths :
        InitWith([s \in ServiceIdentity |-> IF s = "backend" THEN p ELSE "none"])

NextConsume ==
    \/ \E b \in {"frontend", "backend"} : Connect(b)
    \/ StartConsuming("backend")
    \/ SendUpdateRequest
    \/ \E message \in {[isdict |-> TRUE, value |-> ("type" :> "calculation")],
                       [isdict |-> FALSE, value |-> EmptyDict]} :
          ClientPublish(BACKEND_QUEUE, message)
    \/ \E handler_raises \in BOOLEAN : Deliver("backend", handler_raises)

SpecConsume == InitConsume /\ [][NextConsume]_vars

\* the paths on which a service handler is registered through MessageBroker
HandlerPaths == {"service", "servicebroker", "callback"}

\* C3: a fire-and-forget message sent through MessageBroker to a service whose
\* consumer runs reaches the registered handler exactly once: never twice, and
\* once its delivery is over it has been handed to the handler, whether the
\* handler returned or raised.
C3_ExactlyOnce ==
    /\ \A m \in InQueues :
          (m.exchange = SERVICE_EXCHANGE /\ consumer["backend"] \in HandlerPaths)
             => invoked[m.id] <= 1
    /\ (lastDelivery.service # "none" /\ lastDelivery.path \in HandlerPaths
        /\ lastDelivery.message.exchange = SERVICE_EXCHANGE)
          => invoked[lastDelivery.id] = 1

\* C4: on every consume path, a delivery whose handler raised is acknowledged
\* and not requeued.
C4_ErrorStillAcks ==
    (lastDelivery.service # "none" /\ lastDelivery.raised)
       => /\ lastDelivery.settlement = "ack"
          /\ \A m \in InQueues : m.id # lastDelivery.id

\* C5: a delivered body that fails to parse is acknowledged (or rejected without
\* requeue) and leaves the queue, and the consume loop keeps running, on the
\* default callback, a service handler, ServiceBroker and MessageConsumer.
C5_MalformedDropped ==
    (lastDelivery.service # "none" /\ ~lastDelivery.parsed
     /\ lastDelivery.path \in {"default", "service", "servicebroker", "consumer"})
       => /\ lastDelivery.settlement \in {"ack", "nack_drop"}
          /\ \A m \in InQueues : m.id # lastDelivery.id
          /\ ~lastDelivery.stopped

(***************************************************************************)
(* Correlated requests: the frontend issues search requests and consumes   *)
(* its queue; the backend answers with typed messages carrying request ids *)
(***************************************************************************)
\* FrontendService.send_search_request: draw a request id, store the pending
\* entry, then send to the backend (an exception of the send leaves the entry)
SendSearchRequest ==
    /\ nextReq < MaxReqs
    /\ nextId < MaxMsgs
    /\ LET request_id == uuid4(nextReq + 1)
           message == ("type" :> "user_action") @@ ("action" :> "search") @@
                      ("request_id" :> request_id)
           out == _send_targeted_message("frontend", message,
                      send_to_backend("frontend"), nextId + 1, 0)
       IN  /\ nextReq' = nextReq + 1
           /\ pending_requests' = request_id :> [time |-> now] @@ pending_requests
           /\ queues' = Publish(queues, out)
           /\ nextId' = nextId + Len(out.published)
           /\ lastSend' = [api |-> "send_search_request", broker |-> "frontend",
                           target |-> "backend", result |-> out.result,
                           delta |-> Queued(queues') - Queued(queues),
                           id |-> IF nextId' > nextId THEN nextId' ELSE 0,
                           payload |-> message]
    /\ UNCHANGED <<bindings, channel, consumer, consuming, invoked, settled,
                   lastDelivery, displayed, now, client,
                   loop, waiting,
                   pc, declared, consumer_tags, callbacks,
                   supervisor, rmq, listener, composer, events>>

\* time.time() advances
Tick ==
    /\ now < MaxTime
    /\ now' = now + 1
    /\ UNCHANGED <<queues, bindings, channel, nextId, lastSend, consumer, consuming,
                   invoked, settled, lastDelivery, pending_requests, displayed,
                   nextReq, client,
                   loop, waiting,
                   pc, declared, consumer_tags, callbacks,
                   supervisor, rmq, listener, composer, events>>

\* what the backend sends to the frontend about request r; the results differ
\* from message to message
BackendMessages(r) ==
    {("type" :> type) @@ ("request_id" :> r) @@ ("results" :> ToString(nextId + 1)) :
        type \in {"search_results", "operation_status"}}

InitCorr ==
    InitWith([s \in ServiceIdentity |-> IF s = "frontend" THEN "service" ELSE "none"])

NextCorr ==
    \/ \E b \in {"frontend", "backend"} : Connect(b)
    \/ StartConsuming("frontend")
    \/ SendSearchRequest
    \/ \E r \in RequestIds : \E message \in BackendMessages(r) :
          channel["backend"] = "open" /\ SendTo("backend", "frontend", message)
    \/ Deliver("frontend", FALSE)

SpecCorr == InitCorr /\ [][NextCorr]_vars

\* a step in which the frontend's process_message handled a delivery
FrontendDelivery == settled' # settled /\ lastDelivery'.service = "frontend"

GenericHandlers == {"handle_event_notification", "handle_operation_status",
                    "handle_action_received", "unknown_type"}

\* C9 as stated: a delivered message whose request id is pending fills that
\* request and bypasses the generic handlers; one whose id is not pending goes
\* to a generic handler.
C9_ByCorrelationId ==
    [][(FrontendDelivery /\ lastDelivery'.parsed) =>
          LET message == json_loads(lastDelivery'.message.body)
              request_id == Get(message, "request_id")
          IN  IF request_id \in DOMAIN pending_requests
              THEN /\ lastDelivery'.handler \notin GenericHandlers
                   /\ pending_requests' = Remove(pending_requests, request_id)
              ELSE lastDelivery'.handler \in GenericHandlers]_vars

\* C9 (amended): the dispatch is chosen by the message's type.  A search_results
\* message goes to handle_search_results alone, which fills the request when
\* its id is pending and otherwise only logs; a message of any other type goes
\* to one generic handler and leaves the pending table as it was, even when
\* it carries the id of a pending request.
C9_DispatchByType ==
    [][(FrontendDelivery /\ lastDelivery'.parsed) =>
          LET message == json_loads(lastDelivery'.message.body)
              request_id == Get(message, "request_id")
          IN  IF Get(message, "type") = "search_results"
              THEN /\ lastDelivery'.handler = "handle_search_results"
                   /\ pending_requests' =
                         IF request_id \in DOMAIN pending_requests
                         THEN Remove(pending_requests, request_id)
                         ELSE pending_requests
              ELSE /\ lastDelivery'.handler \in GenericHandlers
                   /\ UNCHANGED <<pending_requests, displayed>>]_vars

\* an operation_status carrying the id of a pending request went to the generic
\* handler and the request is still pending
C9_Witness ==
    /\ lastDelivery.handler = "handle_operation_status"
    /\ Get(json_loads(lastDelivery.message.body), "request_id") \in DOMAIN pending_requests
    /\ lastDelivery.settlement = "ack"

(***************************************************************************)
(* Unanswered requests: the same services while time passes                *)
(***************************************************************************)
NextTimeout ==
    \/ \E b \in {"frontend", "backend"} : Connect(b)
    \/ StartConsuming("frontend")
    \/ nextId < MaxTimedMsgs /\ SendSearchRequest
    \/ \E r \in RequestIds : \E message \in BackendMessages(r) :
          /\ nextId < MaxTimedMsgs /\ channel["backend"] = "open"
          /\ message["type"] = "search_results"
          /\ SendTo("backend", "frontend", message)
    \/ Tick
    \/ Deliver("frontend", FALSE)

SpecTimeout == InitCorr /\ [][NextTimeout]_vars

\* C7: a request that stays unanswered is removed from the pending table when
\* its timeout has passed: no entry is older than the timeout, for any timeout
\* shorter than the time the run covers.
C7_TimeoutRemoves ==
    \A r \in DOMAIN pending_requests : now - pending_requests[r].time < MaxTime

(***************************************************************************)
(* Replies: the backend sends requests to the database service, which      *)
(* answers; sender.py sends tasks that receiver.py answers                 *)
(***************************************************************************)
\* sender.py send_message: a task with reply_to and a fresh correlation id;
\* the process then waits for its response
SenderSendMessage ==
    /\ nextId < MaxMsgs
    /\ LET correlation_id == nextId + 1
           message == ("task_id" :> ToString(correlation_id)) @@
                      ("type" :> "calculation")
           m == [Message(nextId + 1, DefaultExchange, TASK_QUEUE, correlation_id,
                         None, None, json_dumps(message), 0)
                    EXCEPT !.reply_to = RESPONSE_QUEUE]
           \* queue_declare('task_queue'), queue_declare('response_queue'); a
           \* refused declaration raises and ends the process
           qd == queue_declare(declared, <<TASK_QUEUE, RESPONSE_QUEUE>>, "transient")
       IN  /\ declared' = qd.declared
           /\ queues' = IF qd.ok THEN Route(queues, bindings, m) ELSE queues
           /\ waiting' = IF qd.ok THEN (correlation_id :> "waiting") @@ waiting
                         ELSE waiting
           /\ nextId' = IF qd.ok THEN nextId + 1 ELSE nextId
           /\ lastSend' = [api |-> "sender", broker |-> "sender", target |-> "task_queue",
                           result |-> IF qd.ok THEN "None" ELSE "raise",
                           delta |-> Queued(queues') - Queued(queues),
                           id |-> IF nextId' > nextId THEN nextId' ELSE 0,
                           payload |-> message]
    /\ UNCHANGED <<bindings, channel, consumer, consuming, invoked, settled,
                   lastDelivery, pending_requests, displayed, nextReq, now, client,
                   loop,
                   pc, consumer_tags, callbacks, supervisor,
                   rmq, listener, composer, events>>

\* receiver.py callback (auto_ack=True): the response it publishes, if it gets
\* that far
callback(m, id) ==
    LET message == json_loads(m.body)
    IN  IF ~IsDict(message) \/ "task_id" \notin DOMAIN message \/ m.reply_to = None
        THEN <<>>
        ELSE <<Message(id, DefaultExchange, m.reply_to, m.correlation_id, None, None,
                       json_dumps(("task_id" :> message["task_id"]) @@
                                  ("status" :> "completed")), m.id)>>

ReceiverCallback ==
    /\ Len(queues[TASK_QUEUE]) > 0
    /\ declared[TASK_QUEUE] = "transient"     \* receiver.py: queue_declare('task_queue')
    /\ nextId < MaxMsgs
    /\ LET m == Head(queues[TASK_QUEUE])
           response == callback(m, nextId + 1)
           rest == [queues EXCEPT ![TASK_QUEUE] = Tail(@)]
       IN  /\ queues' = IF Len(response) = 0 THEN rest
                        ELSE Route(rest, bindings, response[1])
           /\ nextId' = nextId + Len(response)
           /\ invoked' = [invoked EXCEPT ![m.id] = @ + 1]
           /\ settled' = [settled EXCEPT ![m.id] = Append(@, "auto")]
           /\ lastDelivery' = [service |-> "receiver", id |-> m.id, path |-> "receiver",
                               handler |-> "callback", settlement |-> "auto",
                               raised |-> Len(response) = 0, stopped |-> Len(response) = 0,
                               parsed |-> IsDict(json_loads(m.body)),
                               callback |-> 0, message |-> m]
    /\ UNCHANGED <<bindings, channel, lastSend, consumer, consuming, pending_requests,
                   displayed, nextReq, now, client,
                   loop, waiting,
                   pc, declared, consumer_tags, callbacks,
                   supervisor, rmq, listener, composer, events>>

\* the requests the backend sends to the database service about request r
DatabaseRequests(r) ==
    {("type" :> "search_request") @@ ("request_id" :> r),
     ("type" :> "write_request") @@ ("operation" :> "update") @@ ("request_id" :> r)}

InitReply ==
    InitWith([s \in ServiceIdentity |-> IF s = "database" THEN "service" ELSE "none"])

\* the brokers that send requests to the database: BackendService's and the
\* one interactive_mode creates
Requesters == {"backend", "backend_interactive"}

NextReply ==
    \/ \E b \in Requesters \cup {"database"} : Connect(b)
    \/ StartConsuming("database")
    \/ \E b \in Requesters, r \in RequestIds : \E message \in DatabaseRequests(r) :
          channel[b] = "open" /\ SendTo(b, "database", message)
    \/ Deliver("database", FALSE)
    \/ SenderSendMessage
    \/ ReceiverCallback

SpecReply == InitReply /\ [][NextReply]_vars

\* the token that links a reply to its request: request_id in the body of a
\* message sent through MessageBroker, the correlation_id property otherwise
Token(m) ==
    IF m.exchange = SERVICE_EXCHANGE THEN Get(json_loads(m.body), "request_id")
    ELSE m.correlation_id

\* C8: every reply a responder sends carries the token of the request that
\* caused it: receiver.py's response the task's correlation_id, the database
\* service's search_results and write_response the request's request_id.
C8_RepliesCarryToken ==
    \A m \in InQueues :
        (m.cause # 0 /\ lastDelivery.id = m.cause)
           => Token(m) = Token(lastDelivery.message)

(***************************************************************************)
(* Round trip: the frontend sends payloads to the backend, through         *)
(* MessageBroker and through ServiceBroker, and the backend's handler      *)
(* receives them                                                           *)
(***************************************************************************)
Payloads == {("message" :> "Action received"),
             ("message" :> "hello") @@ ("timestamp" :> "yesterday"),
             ("type" :> "custom") @@ ("source_service" :> "mobile")}

InitRoundTrip ==
    \E p \in {"service", "servicebroker"} :
        InitWith([s \in ServiceIdentity |-> IF s = "backend" THEN p ELSE "none"])

NextRoundTrip ==
    \/ \E b \in {"frontend", "backend"} : Connect(b)
    \/ StartConsuming("backend")
    \/ \E payload \in Payloads : SendTo("frontend", "backend", payload)
    \/ \E data \in Payloads :
          ServiceBrokerSend("frontend", "backend", "notification", data)
    \/ Deliver("backend", FALSE)

SpecRoundTrip == InitRoundTrip /\ [][NextRoundTrip]_vars

\* C12: the message the target's handler receives has every key of the
\* caller's payload with the caller's value, source_service = the sender and
\* target_service = the service that received it.
C12_RoundTrip ==
    (lastDelivery.service # "none" /\ lastDelivery.parsed
     /\ lastSend.id # 0 /\ lastDelivery.id = lastSend.id)
       => LET received == json_loads(lastDelivery.message.body)
              payload == lastSend.payload
          IN  /\ \A k \in DOMAIN payload :
                    k \in DOMAIN received /\ received[k] = payload[k]
              /\ Get(received, "source_service") = lastSend.broker
              /\ Get(received, "target_service") = lastDelivery.service

\* C17: when the database service has handled a search_request, exactly one
\* search_results reply caused by it has been sent, addressed to the service
\* that sent the request, whatever the name of the requester's broker.
C17_SearchAnswered ==
    (lastDelivery.service = "database" /\ lastDelivery.parsed
     /\ Get(json_loads(lastDelivery.message.body), "type") = "search_request")
       => Cardinality({m \in InQueues :
                          /\ m.cause = lastDelivery.id
                          /\ Get(json_loads(m.body), "type") = "search_results"
                          /\ m.headers.target_service =
                                lastDelivery.message.headers.source_service}) = 1

(***************************************************************************)
(* Supervision: each service's constructor connects, its run loop (or      *)
(* consumer thread) calls consume_with_callback, connections fail          *)
(***************************************************************************)
\* BackendService.run loops while not shutdown_flag; FrontendService's consumer
\* thread and DatabaseService.run call consume_with_callback once
Loops(s) == s = "backend"

AfterReturn(s) == IF Loops(s) THEN "alive" ELSE "ended"

\* <Service>.__init__: MessageBroker(service_name), broker.connect(); then the
\* consumer thread is started or run() is called
ServiceStart(s) ==
    /\ loop[s].state = "new"
    /\ \E outcome \in ConnectOutcomes :
         /\ channel' = [channel EXCEPT ![s] = connect(channel[s], outcome)]
         /\ bindings' = Declared(bindings, channel[s], outcome)
         /\ declared' = DeclaredQueues(declared, channel[s], outcome)
    /\ loop' = [loop EXCEPT ![s].state = "alive"]
    /\ UNCHANGED <<queues, nextId, lastSend, consumer, consuming, invoked, settled,
                   lastDelivery, pending_requests, displayed, nextReq, now, client,
                   waiting,
                   pc, consumer_tags, callbacks, supervisor,
                   rmq, listener, composer, events>>

\* one pass of the run loop: BackendService.run reconnects when the connection
\* is not open; consume_with_callback connects when there is no channel, gives
\* up when there is still none, fails on a channel that is closed, and
\* otherwise registers the consumer and enters start_consuming
ServiceConsume(s) ==
    /\ loop[s].state = "alive"
    /\ ~consuming[s]
    /\ \E o1 \in ConnectOutcomes, o2 \in ConnectOutcomes :
         LET c0 == IF Loops(s) /\ channel[s] \in {"none", "closed"}
                   THEN connect(channel[s], o1) ELSE channel[s]
             b0 == IF Loops(s) /\ channel[s] \in {"none", "closed"}
                   THEN Declared(bindings, channel[s], o1) ELSE bindings
             d0 == IF Loops(s) /\ channel[s] \in {"none", "closed"}
                   THEN DeclaredQueues(declared, channel[s], o1) ELSE declared
             c1 == IF c0 = "none" THEN connect(c0, o2) ELSE c0
             b1 == IF c0 = "none" THEN Declared(b0, c0, o2) ELSE b0
             d1 == IF c0 = "none" THEN DeclaredQueues(d0, c0, o2) ELSE d0
             entered == c1 \notin {"none", "closed", "channel_closed"}
         IN  /\ channel' = [channel EXCEPT ![s] = c1]
             /\ bindings' = b1
             /\ declared' = d1
             /\ consuming' = [consuming EXCEPT ![s] = entered]
             /\ consumer_tags' = IF entered
                                 THEN [consumer_tags EXCEPT ![s] = @ \cup {ConsumeQueue(s)}]
                                 ELSE consumer_tags
             /\ loop' = [loop EXCEPT ![s].state =
                            IF entered THEN "alive" ELSE AfterReturn(s)]
    /\ UNCHANGED <<queues, nextId, lastSend, consumer, invoked, settled,
                   lastDelivery, pending_requests, displayed, nextReq, now, client,
                   waiting,
                   pc, callbacks, supervisor, rmq, listener,
                   composer, events>>

\* the connection fails while start_consuming runs: StreamLostError is caught
\* and clears connection and channel, any other exception is only logged
ConsumeFailure(s, error) ==
    /\ consuming[s]
    /\ loop[s].failures < MaxFailures
    /\ channel' = [channel EXCEPT ![s] =
                      IF error = "StreamLostError" THEN "none" ELSE "closed"]
    /\ consuming' = [consuming EXCEPT ![s] = FALSE]
    /\ loop' = [loop EXCEPT ![s] = [state |-> AfterReturn(s),
                                    failures |-> @.failures + 1]]
    /\ UNCHANGED <<queues, bindings, nextId, lastSend, consumer, invoked, settled,
                   lastDelivery, pending_requests, displayed, nextReq, now, client,
                   waiting,
                   pc, declared, consumer_tags, callbacks,
                   supervisor, rmq, listener, composer, events>>

\* MessageBroker.close(): stop_consuming() cancels every tag of consumer_tags
\* on self.channel and clears the table, then the connection is closed if it
\* is not; an exception of stop_consuming (no channel, closed channel) is
\* logged by close() and ends it
close(ch, tags) ==
    IF tags # {} /\ ch # "open"
    THEN [channel |-> ch, consumer_tags |-> tags]
    ELSE [channel |-> IF ch = "open" THEN "closed" ELSE ch, consumer_tags |-> {}]

\* handle_shutdown on SIGINT / SIGTERM: broker.close(), sys.exit(0)
Shutdown(s) ==
    /\ loop[s].state \in {"alive", "ended"}
    /\ loop' = [loop EXCEPT ![s].state = "stopped"]
    /\ consuming' = [consuming EXCEPT ![s] = FALSE]
    /\ channel' = [channel EXCEPT ![s] = close(channel[s], consumer_tags[s]).channel]
    /\ consumer_tags' = [consumer_tags EXCEPT ![s] =
                            close(channel[s], consumer_tags[s]).consumer_tags]
    /\ UNCHANGED <<queues, bindings, nextId, lastSend, consumer, invoked, settled,
                   lastDelivery, pending_requests, displayed, nextReq, now, client,
                   waiting, pc, declared, callbacks, supervisor,
                   rmq, listener, composer, events>>

InitSupervise == InitWith([s \in ServiceIdentity |-> "service"])

NextSupervise ==
    \/ \E s \in ServiceIdentity : ServiceStart(s)
    \/ \E s \in ServiceIdentity : ServiceConsume(s)
    \/ \E s \in ServiceIdentity, error \in {"StreamLostError", "ConnectionClosed"} :
          ConsumeFailure(s, error)
    \/ \E s \in ServiceIdentity : Shutdown(s)
    \/ \E s \in ServiceIdentity :
          nextId < MaxRouteMsgs /\ channel[s] = "open" /\ SendTo(s, "backend", Notification)
    \/ Deliver("backend", FALSE)

SpecSupervise == InitSupervise /\ [][NextSupervise]_vars

\* the binding connect() declares for the service's own queue
OwnBinding(s) == [queue |-> ConsumeQueue(s), pattern |-> Pattern(s)]

\* C13: a service consumes only on a channel that connect() opened and on
\* which it declared the exchange, the queues and the bindings, the service's
\* own binding among them, also after a reconnection.
C13_BoundBeforeConsume ==
    \A s \in ServiceIdentity :
        consuming[s] => (channel[s] = "open" /\ OwnBinding(s) \in bindings)

\* the backend consumes again after a connection failure
C13_Witness ==
    /\ consuming["backend"]
    /\ loop["backend"].failures >= 1
    /\ channel["backend"] = "open"

\* C14: after a connection failure, and unless it was told to stop, each of
\* the three services keeps looping: its run loop (or consumer thread) has not
\* ended, so it can return to consuming.
C14_NeverFatal ==
    \A s \in ServiceIdentity : loop[s].failures >= 1 => loop[s].state # "ended"

\* C15: every detected failure clears the broker object's connection and
\* channel: a send that raised on a dead connection, and a consume loop that
\* a connection failure ended, leave channel = None.
C15_BackToDisconnected ==
    [][/\ (lastSend' # lastSend /\ lastSend'.api = "send_to"
           /\ lastSend'.result = "raise" /\ channel[lastSend'.broker] = "closed")
             => channel'[lastSend'.broker] = "none"
       /\ \A s \in ServiceIdentity :
             loop'[s].failures > loop[s].failures => channel'[s] = "none"]_vars

(***************************************************************************)
(* Tasks: sender.py processes send tasks and wait on response_queue,       *)
(* receiver.py answers them                                                *)
(***************************************************************************)
\* sender.py send_message.callback (auto_ack=True) in the process waiting for
\* correlation_id: a response with another id is consumed and ignored
SenderCallback(correlation_id) ==
    /\ correlation_id \in DOMAIN waiting
    /\ waiting[correlation_id] = "waiting"
    /\ Len(queues[RESPONSE_QUEUE]) > 0
    /\ LET m == Head(queues[RESPONSE_QUEUE])
       IN  /\ queues' = [queues EXCEPT ![RESPONSE_QUEUE] = Tail(@)]
           /\ waiting' = IF m.correlation_id = correlation_id
                         THEN [waiting EXCEPT ![correlation_id] = "done"]
                         ELSE waiting
           /\ settled' = [settled EXCEPT ![m.id] = Append(@, "auto")]
           /\ invoked' = [invoked EXCEPT ![m.id] = @ + 1]
    /\ UNCHANGED <<bindings, channel, nextId, lastSend, consumer, consuming,
                   lastDelivery, pending_requests, displayed, nextReq, now, client,
                   loop,
                   pc, declared, consumer_tags, callbacks,
                   supervisor, rmq, listener, composer, events>>

NextTask ==
    \/ SenderSendMessage
    \/ ReceiverCallback
    \/ \E correlation_id \in 1..MaxMsgs : SenderCallback(correlation_id)
    \/ \E message \in ClientMessages : ClientPublish(TASK_QUEUE, message)
    \/ ClientLost

SpecTask == InitSend /\ [][NextTask]_vars

\* C16: a sender that still waits and whose task the receiver has answered
\* finds its response in response_queue: no other sender has consumed it.
\* A sender that is done got the response with its own correlation id.
C16_OwnReply ==
    \A c \in DOMAIN waiting :
        (waiting[c] = "waiting" /\ invoked[c] >= 1)
           => \E i \in 1..Len(queues[RESPONSE_QUEUE]) :
                 queues[RESPONSE_QUEUE][i].correlation_id = c

(***************************************************************************)
(* Request ids: the places that draw an id for a request they send         *)
(***************************************************************************)
\* interactive_mode, choice 1: request_id = f"req-{int(time.time())}"
InteractiveSearch ==
    /\ channel["backend_interactive"] = "open"
    /\ SendTo("backend_interactive", "database",
              ("type" :> "search_request") @@
              ("request_id" :> ("req-" \o ToString(now))))

\* backend_service_example.search_events: request_id = f"req-{time.time()}",
\* sent by send_to_service on a connection of its own to database_queue
search_events ==
    /\ nextId < MaxMsgs
    /\ LET request_id == "req-" \o ToString(now) \o ".0"
           message == ("source_service" :> "backend") @@ ("type" :> "query") @@
                      ("request_id" :> request_id)
           m == Message(nextId + 1, DefaultExchange, DATABASE_QUEUE, 0, None, None,
                        json_dumps(message), 0)
           \* send_to_service: channel.queue_declare(queue=queue_name)
           qd == queue_declare(declared, <<DATABASE_QUEUE>>, "transient")
       IN  /\ declared' = qd.declared
           /\ queues' = IF qd.ok THEN Route(queues, bindings, m) ELSE queues
           /\ nextId' = IF qd.ok THEN nextId + 1 ELSE nextId
           /\ lastSend' = [api |-> "send_to_service", broker |-> "backend",
                           target |-> "database",
                           result |-> IF qd.ok THEN "True" ELSE "False",
                           delta |-> Queued(queues') - Queued(queues),
                           id |-> IF nextId' > nextId THEN nextId' ELSE 0,
                           payload |-> message]
    /\ UNCHANGED <<bindings, channel, consumer, consuming, invoked, settled,
                   lastDelivery, pending_requests, displayed, nextReq, now, client,
                   loop, waiting, pc, consumer_tags, callbacks,
                   supervisor, rmq, listener, composer, events>>

\* setup_rabbitmq_queues(): on a connection of its own, the three queues, the
\* exchange and the three bindings; any exception gives False
setup_rabbitmq_queues ==
    /\ \E outcome \in ConnectOutcomes :
         /\ bindings' = Declared(bindings, "none", outcome)
         /\ declared' = DeclaredQueues(declared, "none", outcome)
    /\ UNCHANGED <<queues, channel, nextId, lastSend, consumer, consuming, invoked,
                   settled, lastDelivery, pending_requests, displayed, nextReq, now,
                   client, loop, waiting, pc, consumer_tags, callbacks,
                   supervisor, rmq, listener, composer, events>>

NextIds ==
    \/ \E b \in {"frontend", "backend_interactive"} : Connect(b)
    \/ Tick
    \/ SendSearchRequest
    \/ InteractiveSearch
    \/ search_events
    \/ setup_rabbitmq_queues

SpecIds == InitSend /\ [][NextIds]_vars

\* C18: no two requests that are in flight (sent and not yet consumed) carry
\* the same request id, whether the id was drawn by the frontend, by
\* interactive_mode or by search_events.
C18_UniqueIds ==
    LET request_id(m) == Get(json_loads(m.body), "request_id")
    IN  \A m1 \in InQueues, m2 \in InQueues :
            m1.id # m2.id /\ request_id(m1) # None => request_id(m1) # request_id(m2)

\* C19: operations on the frontend broker's channel are serialized: no send
\* on it happens while the consumer thread is inside the consume loop of the
\* same channel.
C19_Serialized ==
    [][lastSend' # lastSend /\ lastSend'.broker = "frontend"
           => ~consuming["frontend"]]_vars

MutNoStore_RegisterRequest ==
    /\ pc["main"].at = "idle"
    /\ nextReq < MaxReqs
    /\ LET request_id == uuid4(nextReq + 1)
           message == ("type" :> "user_action") @@ ("action" :> "search") @@
                      ("request_id" :> request_id)
       IN  /\ nextReq' = nextReq + 1
           /\ pc' = [pc EXCEPT !["main"] = [at |-> "send_to_backend",
                                            message |-> message]]
    /\ UNCHANGED <<queues, bindings, channel, nextId, lastSend, consumer, consuming,
                   invoked, settled, lastDelivery, pending_requests, displayed, now,
                   client, loop, waiting, declared, consumer_tags, callbacks,
                   supervisor, rmq, listener, composer, events>>

\* send_search_request up to its store: draw the id, build the message,
\* self.pending_requests[request_id] = {...}
RegisterRequest ==
    /\ pc["main"].at = "idle"
    /\ nextReq < MaxReqs
    /\ LET request_id == uuid4(nextReq + 1)
           message == ("type" :> "user_action") @@ ("action" :> "search") @@
                      ("request_id" :> request_id)
       IN  /\ nextReq' = nextReq + 1
           /\ pending_requests' = request_id :> [time |-> now] @@ pending_requests
           /\ pc' = [pc EXCEPT !["main"] = [at |-> "send_to_backend",
                                            message |-> message]]
    /\ UNCHANGED <<queues, bindings, channel, nextId, lastSend, consumer, consuming,
                   invoked, settled, lastDelivery, displayed, now, client, loop,
                   waiting, declared, consumer_tags, callbacks,
                   supervisor, rmq, listener, composer, events>>

\* send_search_request from its store on: self.broker.send_to_backend(message);
\* an exception of the send leaves the call
PublishRequest ==
    /\ pc["main"].at = "send_to_backend"
    /\ nextId < MaxMsgs
    /\ LET message == pc["main"].message
           out == _send_targeted_message("frontend", message,
                      send_to_backend("frontend"), nextId + 1, 0)
       IN  /\ queues' = Publish(queues, out)
           /\ nextId' = nextId + Len(out.published)
           /\ lastSend' = [api |-> "send_search_request", broker |-> "frontend",
                           target |-> "backend", result |-> out.result,
                           delta |-> Queued(queues') - Queued(queues),
                           id |-> IF nextId' > nextId THEN nextId' ELSE 0,
                           payload |-> message]
    /\ pc' = [pc EXCEPT !["main"] = [at |-> "idle"]]
    /\ UNCHANGED <<bindings, channel, consumer, consuming, invoked, settled,
                   lastDelivery, pending_requests, displayed, nextReq, now, client,
                   loop, waiting, declared, consumer_tags, callbacks,
                   supervisor, rmq, listener, composer, events>>

\* a handle_search_results that works on the table it read at its test
MutCopy_HandleSearchResults ==
    LET m == Head(queues[FRONTEND_QUEUE])
        message == json_loads(m.body)
        request_id == Get(message, "request_id")
    IN  /\ Len(queues[FRONTEND_QUEUE]) > 0
        /\ IF pc["consumer"].at = "idle"
           THEN /\ consuming["frontend"]
                /\ m.deliveries < MaxDeliveries
                /\ pc' = [pc EXCEPT !["consumer"] =
                            [at |-> "tested", table |-> pending_requests,
                             found |-> request_id \in DOMAIN pending_requests]]
                /\ UNCHANGED <<queues, pending_requests, displayed>>
           ELSE /\ pc' = [pc EXCEPT !["consumer"] = [at |-> "idle"]]
                /\ pending_requests' = IF pc["consumer"].found
                                       THEN Remove(pc["consumer"].table, request_id)
                                       ELSE pending_requests
                /\ displayed' = IF pc["consumer"].found
                                THEN [displayed EXCEPT ![request_id] =
                                         Append(@, Get(message, "results"))]
                                ELSE displayed
                /\ queues' = [queues EXCEPT ![FRONTEND_QUEUE] = Tail(@)]
        /\ UNCHANGED <<bindings, channel, nextId, lastSend, consumer, consuming,
                       invoked, settled, lastDelivery, nextReq, now, client, loop,
                       waiting, declared, consumer_tags, callbacks,
                   supervisor, rmq, listener, composer, events>>

\* the consumer thread with a search_results delivery: the test `request_id in
\* self.pending_requests` is one step; the del, the UI update and the ack of
\* process_message are the next (on a lost connection the ack fails and the
\* server keeps the message)
HandleSearchResults ==
    LET m == Head(queues[FRONTEND_QUEUE])
        message == json_loads(m.body)
        request_id == Get(message, "request_id")
        found == pc["consumer"].found
        acked == channel["frontend"] = "open"
    IN  /\ Len(queues[FRONTEND_QUEUE]) > 0
        /\ IF pc["consumer"].at = "idle"
           THEN /\ consuming["frontend"]
                /\ m.deliveries < MaxDeliveries
                /\ pc' = [pc EXCEPT !["consumer"] =
                            [at |-> "tested",
                             found |-> request_id \in DOMAIN pending_requests]]
                /\ UNCHANGED <<queues, invoked, settled, lastDelivery,
                               pending_requests, displayed>>
           ELSE /\ pc' = [pc EXCEPT !["consumer"] = [at |-> "idle"]]
                /\ pending_requests' = IF found THEN Remove(pending_requests, request_id)
                                       ELSE pending_requests
                /\ displayed' = IF found
                                THEN [displayed EXCEPT ![request_id] =
                                         Append(@, Get(message, "results"))]
                                ELSE displayed
                /\ queues' = [queues EXCEPT ![FRONTEND_QUEUE] =
                                 IF acked THEN Tail(@)
                                 ELSE <<[m EXCEPT !.deliveries = @ + 1]>> \o Tail(@)]
                /\ invoked' = [invoked EXCEPT ![m.id] = @ + 1]
                /\ settled' = [settled EXCEPT ![m.id] =
                                  IF acked THEN @ \o <<"ack">> ELSE @]
                /\ lastDelivery' = [service |-> "frontend", id |-> m.id,
                                    path |-> "service",
                                    handler |-> "handle_search_results",
                                    settlement |-> IF acked THEN "ack" ELSE "unacked",
                                    raised |-> FALSE, stopped |-> FALSE,
                                    parsed |-> TRUE, callback |-> 0, message |-> m]
        /\ UNCHANGED <<bindings, channel, nextId, lastSend, consumer, consuming,
                       nextReq, now, client, loop, waiting, declared,
                       consumer_tags, callbacks, supervisor,
                   rmq, listener, composer, events>>

NextPending ==
    \/ \E b \in {"frontend", "backend"} : Connect(b)
    \/ ConnectionLost("frontend")
    \/ StartConsuming("frontend")
    \/ RegisterRequest
    \/ nextId < MaxTimedMsgs /\ PublishRequest
    \/ \E r \in RequestIds : \E message \in BackendMessages(r) :
          /\ nextId < MaxTimedMsgs /\ channel["backend"] = "open"
          /\ message["type"] = "search_results"
          /\ SendTo("backend", "frontend", message)
    \/ HandleSearchResults

SpecPending == InitCorr /\ [][NextPending]_vars

\* C21: under every interleaving of registrations on the caller's thread with
\* resolutions on the consumer thread, the pending table holds exactly the
\* ids that were registered and whose results were not yet shown.
C21_TableExact ==
    DOMAIN pending_requests =
        {uuid4(k) : k \in 1..nextReq} \ {r \in RequestIds : displayed[r] # <<>>}

\* both threads are inside their operations: the consumer thread between its
\* test and its del, the caller between its store and its send
C21_Witness ==
    /\ pc["consumer"].at = "tested" /\ pc["consumer"].found
    /\ pc["main"].at = "send_to_backend"

\* C22: messages of one sender to one target reach the target's handler in the
\* order they were published, on every consume path: when the handler is
\* handed a message, no message the same sender published earlier is still
\* waiting in the queue.
C22_PublishOrder ==
    [][invoked' # invoked =>
          LET m == lastDelivery'.message
          IN  \A q \in AllQueues : \A i \in 1..Len(queues'[q]) :
                 LET m0 == queues'[q][i]
                 IN  ~(/\ m0.id < m.id
                       /\ m0.exchange = m.exchange
                       /\ m0.routing_key = m.routing_key
                       /\ m0.headers = m.headers)]_vars

\* C23: a send issued while the connection is down terminates: no caller of
\* MessageBroker.send_to_* or RabbitMQClient.publish is left inside a wait
\* that nothing ends.
C23_SendReturns == \A t \in DOMAIN pc : pc[t].at # "requests.get"

\* C24: declaring is idempotent: the bindings that exist are at most one,
\* "*.to.<service>", per service queue, and a declaration that reaches the
\* server where the queue already exists is accepted, so no send fails on it.
C24_DeclareIdempotent ==
    [][/\ bindings' \subseteq ConnectBindings
       /\ lastSend' # lastSend /\ lastSend'.api = "send_to_service"
             => lastSend'.result = "True"]_vars

\* C25: when close() has returned, no consumer of the broker is registered
\* any more and its connection is not open, from whatever state it was called.
C25_CloseComplete ==
    [][\A s \in ServiceIdentity :
          loop'[s].state = "stopped" /\ loop[s].state # "stopped"
              => consumer_tags'[s] = {} /\ channel'[s] # "open"]_vars

\* C26: a connection loss does not touch the correlation state: every step in
\* which the frontend broker's connection changes (lost, refused, opened
\* again) or the server's declarations change leaves the pending table as
\* it was.
C26_LossKeepsPending ==
    [][channel' # channel \/ declared' # declared
          => pending_requests' = pending_requests]_vars

\* a request was published on the connection, the connection is gone and the
\* request is still pending
C26_Witness ==
    /\ lastSend.api = "send_search_request" /\ lastSend.id # 0
    /\ channel["frontend"] # "open"
    /\ Get(lastSend.payload, "request_id") \in DOMAIN pending_requests

\* ---------------------------------------------------------------------------
\* registering a handler twice
\* ---------------------------------------------------------------------------

\* a handler is registered for the service's queue.
\* ServiceBroker.receive_messages(callback) starts a consumer thread with the
\* callback only when no consumer thread is alive; otherwise it logs "already
\* consuming" and returns False, and the running thread keeps its callback.
\* RabbitMQClient.consume(queue, callback) stops the consumer of the queue, if
\* there is one, and starts a thread with the new callback.
RegisterHandler(s, cb) ==
    /\ consumer[s] \in {"servicebroker", "client"}
    /\ consumer[s] = "servicebroker" => channel[s] = "open"
    /\ LET started == consumer[s] = "client" \/ ~consuming[s]
       IN  /\ callbacks' = [callbacks EXCEPT
                               ![s] = [invokes |-> IF started THEN cb
                                                   ELSE @.invokes,
                                       passed |-> cb]]
           /\ consumer_tags' = IF started /\ consumer[s] = "servicebroker"
                               THEN [consumer_tags EXCEPT
                                        ![s] = @ \cup {ConsumeQueue(s)}]
                               ELSE consumer_tags
    /\ consuming' = [consuming EXCEPT ![s] = TRUE]
    /\ UNCHANGED <<queues, bindings, channel, nextId, lastSend, consumer, invoked,
                   settled, lastDelivery, pending_requests, displayed, nextReq, now,
                   client, loop, waiting, pc, declared,
                   supervisor, rmq, listener, composer, events>>

NextRegister ==
    \/ \E b \in {"frontend", "backend"} : Connect(b)
    \/ \E cb \in 1..2 : RegisterHandler("backend", cb)
    \/ SendUpdateRequest
    \/ Deliver("backend", FALSE)

SpecRegister == InitConsume /\ [][NextRegister]_vars

\* C27: a service has one handler and registering again replaces it: every
\* message handed to a handler goes to the callback of the latest
\* registration call, none to an earlier one.
C27_Replaces ==
    [][invoked' # invoked /\ lastDelivery'.callback # 0
          => lastDelivery'.callback = callbacks["backend"].passed]_vars

\* C28: resolving a reply touches only the pending entry of its own request
\* id: every other id is pending after the step exactly if it was pending
\* before, with the entry it had, and a reply whose id is not pending leaves
\* the whole table as it was.
C28_OnlyOwnEntry ==
    [][(FrontendDelivery /\ lastDelivery'.handler = "handle_search_results") =>
          LET request_id == Get(json_loads(lastDelivery'.message.body), "request_id")
          IN  /\ \A k \in (DOMAIN pending_requests \cup DOMAIN pending_requests')
                           \ {request_id} :
                     /\ k \in DOMAIN pending_requests
                     /\ k \in DOMAIN pending_requests'
                     /\ pending_requests'[k] = pending_requests[k]
              /\ request_id \notin DOMAIN pending_requests
                     => pending_requests' = pending_requests]_vars

\* a reply was resolved while the entry of another request stays pending
C28_Witness ==
    /\ lastDelivery.handler = "handle_search_results"
    /\ LET request_id == Get(json_loads(lastDelivery.message.body), "request_id")
       IN  /\ request_id \in RequestIds
           /\ displayed[request_id] # <<>>
           /\ request_id \notin DOMAIN pending_requests
    /\ pending_requests # EmptyDict

\* C29: a correlated request is registered before it is published and before
\* its send returns: in the step that publishes a search request, its id was
\* already stored in the pending table (and is pending, or was resolved
\* since); and results are shown only for an id that was pending before the
\* step that shows them.
C29_RegisteredFirst ==
    [][/\ (/\ lastSend' # lastSend
           /\ lastSend'.api = "send_search_request"
           /\ lastSend'.id # 0)
          => LET request_id == Get(lastSend'.payload, "request_id")
             IN  \/ request_id \in DOMAIN pending_requests
                 \/ displayed[request_id] # <<>>
       /\ \A r \in RequestIds :
             displayed'[r] # displayed[r] => r \in DOMAIN pending_requests]_vars

\* a search request is in the backend's queue and its id is pending
C29_Witness ==
    /\ lastSend.api = "send_search_request"
    /\ \E i \in 1..Len(queues[BACKEND_QUEUE]) :
          queues[BACKEND_QUEUE][i].id = lastSend.id
    /\ Get(lastSend.payload, "request_id") \in DOMAIN pending_requests

\* C30: a correlated request whose publish fails leaves no trace: when
\* send_to_backend raises inside send_search_request, the pending table after
\* the call is the table before it.
C30_FailedSendNoTrace ==
    [][(/\ lastSend' # lastSend
        /\ lastSend'.api = "send_search_request"
        /\ lastSend'.result = "raise")
          => pending_requests' = pending_requests]_vars

\* ---------------------------------------------------------------------------
\* acknowledgements on a channel that closed under the handler
\* ---------------------------------------------------------------------------

\* the basic_ack / basic_nack calls a consume path issues for one delivery
\* when the channel closed while the handler ran, so that each of them
\* raises.  process_message: the ack at the end of its try (if the try got
\* that far), then the ack of its except; wrapped_callback: the nack of the
\* except that was entered, or the ack of the try and then the nack of
\* `except Exception`; in both cases callback_wrapper's except acks once
\* more, and that exception leaves the callback.
AcksOnClosedChannel(path, m, handler_raises) ==
    LET failed == ~IsDict(json_loads(m.body)) \/ handler_raises
    IN  CASE path = "service" ->
                (IF failed THEN <<>> ELSE <<"ack">>) \o <<"ack", "ack">>
          [] path = "servicebroker" ->
                (IF ~IsDict(json_loads(m.body)) THEN <<"nack_drop">>
                 ELSE IF handler_raises THEN <<"nack_requeue">>
                 ELSE <<"ack", "nack_requeue">>) \o <<"ack">>

\* a delivery during which the connection is lost: the handler runs, every
\* acknowledgement raises, the last exception ends start_consuming (only a
\* StreamLostError resets connection and channel) and the server requeues the
\* unsettled message
DeliverOnClosedChannel(s, handler_raises) ==
    /\ consumer[s] \in {"service", "servicebroker"}
    /\ consuming[s]
    /\ channel[s] = "open"
    /\ Len(queues[ConsumeQueue(s)]) > 0
    /\ Head(queues[ConsumeQueue(s)]).deliveries < MaxDeliveries
    /\ LET q == ConsumeQueue(s)
           m == Head(queues[q])
           inv == consumer[s] = "service" \/ IsDict(json_loads(m.body))
       IN  /\ queues' = [queues EXCEPT ![q] = AfterDelivery(@, Outcome(inv, <<>>, TRUE), 0)]
           /\ invoked' = [invoked EXCEPT ![m.id] = @ + (IF inv THEN 1 ELSE 0)]
           /\ settled' = [settled EXCEPT ![m.id] =
                             @ \o AcksOnClosedChannel(consumer[s], m, handler_raises)]
           /\ lastDelivery' = [service |-> s, id |-> m.id, path |-> consumer[s],
                               handler |-> IF inv THEN "callback" ELSE "none",
                               settlement |-> "unacked",
                               raised |-> HandlerRaised(consumer[s], m, handler_raises),
                               stopped |-> TRUE,
                               parsed |-> IsDict(json_loads(m.body)),
                               callback |-> 0, message |-> m]
    /\ \E error \in {"StreamLostError", "ChannelWrongStateError"} :
          channel' = [channel EXCEPT ![s] = IF error = "StreamLostError"
                                            THEN "none" ELSE "closed"]
    /\ consuming' = [consuming EXCEPT ![s] = FALSE]
    /\ UNCHANGED <<bindings, nextId, lastSend, consumer, pending_requests, displayed,
                   nextReq, now, client, loop, waiting, pc, declared, consumer_tags,
                   callbacks, supervisor, rmq, listener,
                   composer, events>>

NextSettle ==
    \/ \E b \in {"frontend", "backend"} : Connect(b)
    \/ StartConsuming("backend")
    \/ SendUpdateRequest
    \/ \E handler_raises \in BOOLEAN : Deliver("backend", handler_raises)
    \/ \E handler_raises \in BOOLEAN : DeliverOnClosedChannel("backend", handler_raises)

SpecSettle == InitRoundTrip /\ [][NextSettle]_vars

\* C31: every delivery on the service and ServiceBroker consume paths is
\* settled exactly once: the step that handles a delivery issues exactly one
\* ack or nack for it, also when the handler or the first acknowledgement
\* raises.
C31_SettledOnce ==
    [][(/\ settled' # settled \/ invoked' # invoked
        /\ lastDelivery'.path \in {"service", "servicebroker"})
          => Len(settled'[lastDelivery'.id]) = Len(settled[lastDelivery'.id]) + 1]_vars

\* ---------------------------------------------------------------------------
\* what connect() returns
\* ---------------------------------------------------------------------------

\* the server closes the broker's channel on a channel-level error (406
\* PRECONDITION_FAILED, 404 NOT_FOUND): the connection stays open, a consume
\* loop on the channel ends in consume_with_callback's outer except, which
\* only logs
ChannelClosedByBroker(b) ==
    /\ channel[b] = "open"
    /\ channel' = [channel EXCEPT ![b] = "channel_closed"]
    /\ consuming' = IF b \in ServiceIdentity
                    THEN [consuming EXCEPT ![b] = FALSE] ELSE consuming
    /\ UNCHANGED <<queues, bindings, nextId, lastSend, consumer, invoked, settled,
                   lastDelivery, pending_requests, displayed, nextReq, now, client,
                   loop, waiting, pc, declared, consumer_tags, callbacks,
                   supervisor, rmq, listener, composer, events>>

\* broker.connect() with the value it returns: True from the early return on
\* an open connection and at the end of the try, False from the except
BrokerConnect(b) ==
    /\ \E outcome \in ConnectOutcomes :
         /\ channel' = [channel EXCEPT ![b] = connect(channel[b], outcome)]
         /\ bindings' = Declared(bindings, channel[b], outcome)
         /\ declared' = DeclaredQueues(declared, channel[b], outcome)
         /\ lastSend' = [api |-> "connect", broker |-> b, target |-> None,
                         result |-> IF \/ channel[b] \in {"open", "channel_closed"}
                                       \/ outcome = "ok" /\ setup_queues(declared).ok
                                    THEN "True" ELSE "False",
                         delta |-> 0, id |-> 0, payload |-> EmptyDict]
    /\ UNCHANGED <<queues, nextId, consumer, consuming, invoked, settled,
                   lastDelivery, pending_requests, displayed, nextReq, now, client,
                   loop, waiting, pc, consumer_tags, callbacks,
                   supervisor, rmq, listener, composer, events>>

NextConnect ==
    \/ \E b \in {"frontend", "backend"} : BrokerConnect(b)
    \/ \E b \in {"frontend", "backend"} : ConnectionLost(b)
    \/ \E b \in {"frontend", "backend"} : ChannelClosedByBroker(b)
    \/ StartConsuming("backend")
    \/ SendUpdateRequest
    \/ Deliver("backend", FALSE)

SpecConnect == InitRoundTrip /\ [][NextConnect]_vars

\* C32: connect() returns True only when the broker is usable and False only
\* when it is fully disconnected: after True the channel is open and the
\* service queues are bound, after False connection and channel are None.
C32_ConnectResult ==
    [][(lastSend' # lastSend /\ lastSend'.api = "connect") =>
          /\ lastSend'.result = "True" =>
                (/\ channel'[lastSend'.broker] = "open"
                 /\ ConnectBindings \subseteq bindings')
          /\ lastSend'.result = "False" =>
                channel'[lastSend'.broker] = "none"]_vars

(***************************************************************************)
(* rabbitmq_supervisor: the main loop checks the service every             *)
(* CHECK_INTERVAL seconds and restarts it when it is down or unhealthy     *)
(***************************************************************************)
\* restart_rabbitmq up to its systemctl calls: count the restart against the
\* cooldown, sleep RESTART_COOLDOWN when the count is exceeded, and record the
\* time read at entry as last_restart_time
restart_rabbitmq(sv) ==
    LET current_time == sv.time
        within == current_time - sv.last_restart_time < RESTART_COOLDOWN
        count == IF within THEN sv.restart_count + 1 ELSE 1
        exceeded == within /\ count > MAX_RESTART_ATTEMPTS
    IN  [sv EXCEPT !.restart_count = IF exceeded THEN 0 ELSE count,
                   !.time = IF exceeded THEN @ + RESTART_COOLDOWN ELSE @,
                   !.last_restart_time = current_time,
                   !.at = "systemctl"]

\* one step of main(): the test of `while running`; the status and health
\* checks with the call of restart_rabbitmq; the stop / sleep(5) / start /
\* sleep(10) of the restart, which is recorded with the restarts of the
\* RESTART_COOLDOWN seconds before it; and the wait of CHECK_INTERVAL
\* one-second sleeps that a cleared running flag cuts short
main ==
    /\ supervisor.at \in {"while", "check", "systemctl", "sleep"}
    /\ supervisor.at = "while" => supervisor.time < MaxClock
    /\ \E healthy \in BOOLEAN :
          supervisor' =
             CASE supervisor.at = "while" ->
                    [supervisor EXCEPT !.at = IF supervisor.running THEN "check"
                                              ELSE "exited"]
               [] supervisor.at = "check" ->
                    IF healthy THEN [supervisor EXCEPT !.at = "sleep"]
                    ELSE restart_rabbitmq(supervisor)
               [] supervisor.at = "systemctl" ->
                    [supervisor EXCEPT
                        !.at = "sleep",
                        !.time = @ + 5 + 10,
                        !.restarts =
                            SelectSeq(@, LAMBDA r :
                                supervisor.time - r < RESTART_COOLDOWN)
                            \o <<supervisor.time>>]
               [] supervisor.at = "sleep" ->
                    [supervisor EXCEPT !.at = "while",
                                       !.time = IF supervisor.running
                                                THEN @ + CHECK_INTERVAL ELSE @]
    /\ UNCHANGED <<queues, bindings, channel, nextId, lastSend, consumer, consuming,
                   invoked, settled, lastDelivery, pending_requests, displayed,
                   nextReq, now, client, loop, waiting, pc, declared,
                   consumer_tags, callbacks, rmq, listener,
                   composer, events>>

\* SIGINT / SIGTERM arrives, wherever main() stands
signal_handler ==
    /\ supervisor.running /\ supervisor.at # "exited"
    /\ supervisor' = [supervisor EXCEPT !.running = FALSE]
    /\ UNCHANGED <<queues, bindings, channel, nextId, lastSend, consumer, consuming,
                   invoked, settled, lastDelivery, pending_requests, displayed,
                   nextReq, now, client, loop, waiting, pc, declared,
                   consumer_tags, callbacks, rmq, listener,
                   composer, events>>

NextSupervisor == main \/ signal_handler

SpecSupervisor == InitSend /\ [][NextSupervisor]_vars

\* C33: the supervisor limits restarts within the cooldown period: at most
\* MAX_RESTART_ATTEMPTS restarts are carried out within any window of
\* RESTART_COOLDOWN seconds.
C33_RestartLimit == Len(supervisor.restarts) <= MAX_RESTART_ATTEMPTS

\* C34: once the termination signal has cleared running, the supervisor
\* starts no further restart of the RabbitMQ service.
C34_NoRestartAfterSignal ==
    [][~supervisor.running => supervisor'.restarts = supervisor.restarts]_vars

(***************************************************************************)
(* RabbitMQClient's consumer tables: consume() and stop_consuming() run on *)
(* the caller's thread, _consume_messages on the consumer thread; both     *)
(* write _consumer_threads and _callbacks                                  *)
(***************************************************************************)
\* the finally block of _consume_messages on thread t: the entries of its
\* queue name are deleted from both tables if there are any
consume_finally(r, t) ==
    LET queue_name == r.threads[t].queue
    IN  [r EXCEPT !._callbacks = Remove(@, queue_name),
                  !._consumer_threads = Remove(@, queue_name),
                  !.threads[t].state = "done"]

\* RabbitMQClient.stop_consuming(queue_name).  channel.stop_consuming() makes
\* a thread that is inside start_consuming leave it; join(timeout=2.0)
\* returns when the thread has ended (joined) or after two seconds; then
\* `del self._consumer_threads[queue_name]` raises KeyError, which the except
\* turns into False, when the ending thread's finally has deleted the entry
stop_consuming(r, queue_name, joined) ==
    IF queue_name \notin DOMAIN r._consumer_threads
    THEN [rmq |-> r, result |-> "False"]
    ELSE LET t == r._consumer_threads[queue_name]
             signalled == [r EXCEPT !.threads[t].state =
                               IF @ = "start_consuming" THEN "stopping" ELSE @]
             ended == IF signalled.threads[t].state = "stopping" /\ joined
                      THEN consume_finally(signalled, t) ELSE signalled
         IN  IF queue_name \notin DOMAIN ended._consumer_threads
             THEN [rmq |-> ended, result |-> "False"]
             ELSE [rmq |-> [ended EXCEPT
                               !._consumer_threads = Remove(@, queue_name),
                               !._callbacks = Remove(@, queue_name)],
                   result |-> "True"]

\* is there a consumer of the queue that runs
ActiveConsumer(r, queue_name) ==
    /\ queue_name \in DOMAIN r._consumer_threads
    /\ r.threads[r._consumer_threads[queue_name]].state = "start_consuming"

\* a call of RabbitMQClient.stop_consuming(queue_name)
StopConsuming(queue_name) ==
    /\ \E joined \in BOOLEAN :
          LET out == stop_consuming(rmq, queue_name, joined)
          IN  rmq' = [out.rmq EXCEPT !.call =
                         [api |-> "stop_consuming", result |-> out.result,
                          active |-> ActiveConsumer(rmq, queue_name)]]
    /\ UNCHANGED <<queues, bindings, channel, nextId, lastSend, consumer, consuming,
                   invoked, settled, lastDelivery, pending_requests, displayed,
                   nextReq, now, client, loop, waiting, pc, declared,
                   consumer_tags, callbacks, supervisor,
                   listener, composer, events>>

\* RabbitMQClient.consume(queue_name, callback): stop the consumer of the
\* queue if the table has one, declare the queue, start a thread that runs
\* _consume_messages and store it
ClientConsume(queue_name, cb) ==
    /\ Len(rmq.threads) < MaxThreads
    /\ \E joined \in BOOLEAN :
          LET stopped == stop_consuming(rmq, queue_name, joined).rmq
              thread == Len(rmq.threads) + 1
          IN  rmq' = [stopped EXCEPT
                         !.threads = Append(@, [state |-> "new", queue |-> queue_name,
                                                callback |-> cb]),
                         !._consumer_threads = Put(@, queue_name, thread),
                         !.call = [api |-> "consume", result |-> "True",
                                   active |-> ActiveConsumer(rmq, queue_name)]]
    /\ UNCHANGED <<queues, bindings, channel, nextId, lastSend, consumer, consuming,
                   invoked, settled, lastDelivery, pending_requests, displayed,
                   nextReq, now, client, loop, waiting, pc, declared,
                   consumer_tags, callbacks, supervisor,
                   listener, composer, events>>

\* one step of _consume_messages on consumer thread t: a failed connect()
\* returns at once; otherwise the callback is stored and start_consuming is
\* entered; start_consuming is left when a stop was signalled or the
\* connection fails, and the finally block runs
ConsumeMessages(t) ==
    /\ t \in 1..Len(rmq.threads)
    /\ \E ok \in BOOLEAN :
          rmq' = CASE rmq.threads[t].state = "new" /\ ok ->
                        [rmq EXCEPT !.threads[t].state = "start_consuming",
                                    !._callbacks = Put(@, rmq.threads[t].queue,
                                                       rmq.threads[t].callback)]
                   [] rmq.threads[t].state = "new" /\ ~ok ->
                        [rmq EXCEPT !.threads[t].state = "done"]
                   [] rmq.threads[t].state = "stopping" ->
                        consume_finally(rmq, t)
                   [] rmq.threads[t].state = "start_consuming" /\ ~ok ->
                        consume_finally(rmq, t)
                   [] OTHER -> rmq
    /\ rmq' # rmq
    /\ UNCHANGED <<queues, bindings, channel, nextId, lastSend, consumer, consuming,
                   invoked, settled, lastDelivery, pending_requests, displayed,
                   nextReq, now, client, loop, waiting, pc, declared,
                   consumer_tags, callbacks, supervisor,
                   listener, composer, events>>

NextClient ==
    \/ \E cb \in 1..2 : ClientConsume(BACKEND_QUEUE, cb)
    \/ StopConsuming(BACKEND_QUEUE)
    \/ \E t \in 1..MaxThreads : ConsumeMessages(t)

SpecClient == InitSend /\ [][NextClient]_vars

\* C35: stop_consuming(q) called for a queue with an active consumer returns
\* True and leaves no entry of q in the consumer-thread table and in the
\* callback table.
C35_StopReturnsTrue ==
    [][(/\ rmq'.call # rmq.call \/ rmq'._consumer_threads # rmq._consumer_threads
        /\ rmq'.call.api = "stop_consuming"
        /\ rmq'.call.active)
          => /\ rmq'.call.result = "True"
             /\ BACKEND_QUEUE \notin DOMAIN rmq'._consumer_threads
             /\ BACKEND_QUEUE \notin DOMAIN rmq'._callbacks]_vars

\* C36: after consume(q, cb2) replaced a running consumer of q, and with no
\* other call made since, the tables record the new consumer as long as it
\* runs: the thread entry of q is the new thread and the callback entry of q
\* is its callback.
C36_TablesHoldNewConsumer ==
    LET t == Len(rmq.threads)
    IN  (/\ rmq.call.api = "consume" /\ rmq.call.active
         /\ rmq.threads[t].state = "start_consuming") =>
            /\ rmq.threads[t].queue \in DOMAIN rmq._consumer_threads
            /\ rmq._consumer_threads[rmq.threads[t].queue] = t
            /\ rmq.threads[t].queue \in DOMAIN rmq._callbacks
            /\ rmq._callbacks[rmq.threads[t].queue] = rmq.threads[t].callback

(***************************************************************************)
(* service_listener: control commands are handled on the consumer thread,  *)
(* the service process is watched by a thread of its own; both publish     *)
(* statuses of the service                                                 *)
(***************************************************************************)
\* send_status_update(service_name, status): the status is published, or
\* nothing is when the connection cannot be made
send_status_update(ls, status, sent) ==
    IF sent THEN [ls EXCEPT !.published = Append(@, [status |-> status,
                                                      run |-> ls.run])]
    ELSE ls

\* handle_control_message for the messaging service.  start: start_service
\* returns when the service thread is alive and otherwise starts the thread,
\* which starts the process; stop: stop_service runs pkill and publishes
\* 'stopped'; ping: 'ready' is published
handle_control_message(action) ==
    /\ listener.commands < MaxCommands
    /\ \E sent \in BOOLEAN :
          listener' =
             [(CASE action = "start" ->
                      IF listener.at = "none"
                      THEN [listener EXCEPT !.at = "Popen", !.run = @ + 1]
                      ELSE listener
                 [] action = "stop" ->
                      [send_status_update(listener, "stopped", sent)
                          EXCEPT !.stopped = listener.run]
                 [] action = "ping" ->
                      send_status_update(listener, "ready", sent))
              EXCEPT !.commands = @ + 1]
    /\ UNCHANGED <<queues, bindings, channel, nextId, lastSend, consumer, consuming,
                   invoked, settled, lastDelivery, pending_requests, displayed,
                   nextReq, now, client, loop, waiting, pc, declared,
                   consumer_tags, callbacks, supervisor, rmq,
                   composer, events>>

\* one step of start_service.service_process on the service thread: after
\* Popen it publishes 'running'; when the process has exited, killed or by
\* itself, communicate() returns and it publishes 'error' for a return code
\* other than 0 and 'stopped' for 0
service_process ==
    /\ listener.at \in {"Popen", "communicate"}
    /\ \E sent \in BOOLEAN, returncode \in {0, 1} :
          listener' =
             IF listener.at = "Popen"
             THEN [send_status_update(listener, "running", sent)
                      EXCEPT !.at = "communicate"]
             ELSE [send_status_update(listener,
                       IF returncode # 0 THEN "error" ELSE "stopped", sent)
                      EXCEPT !.at = "none"]
    /\ UNCHANGED <<queues, bindings, channel, nextId, lastSend, consumer, consuming,
                   invoked, settled, lastDelivery, pending_requests, displayed,
                   nextReq, now, client, loop, waiting, pc, declared,
                   consumer_tags, callbacks, supervisor, rmq,
                   composer, events>>

NextListener ==
    \/ \E action \in {"start", "stop", "ping"} : handle_control_message(action)
    \/ service_process

SpecListener == InitSend /\ [][NextListener]_vars

\* C37: after the listener handled a stop command for a running service, no
\* 'running' or 'error' status of that run is published any more: every
\* status published for a run whose stop was handled is 'stopped' (or the
\* 'ready' of a ping).
C37_StoppedIsLast ==
    [][Len(listener'.published) > Len(listener.published) =>
          LET last == listener'.published[Len(listener'.published)]
          IN  last.run = listener.stopped => last.status \in {"stopped", "ready"}]_vars

(***************************************************************************)
(* composer.py: start commands for the services of the system              *)
(***************************************************************************)
\* composer.main(): --service all calls start_all_services, which commands
\* the four services in order; --service <name> commands that one
ComposerMain(service) ==
    /\ composer.todo = <<>>
    /\ composer.runs < MaxRuns
    /\ composer' = [composer EXCEPT
                       !.mode = service,
                       !.todo = IF service = "all"
                                THEN <<"frontend", "backend", "database", "messaging">>
                                ELSE <<service>>,
                       !.results = EmptyDict,
                       !.exit = "none",
                       !.runs = @ + 1]
    /\ UNCHANGED <<queues, bindings, channel, nextId, lastSend, consumer, consuming,
                   invoked, settled, lastDelivery, pending_requests, displayed,
                   nextReq, now, client, loop, waiting, pc, declared,
                   consumer_tags, callbacks, supervisor, rmq, listener,
                   events>>

\* send_start_command(service_name) for the next service of the loop.
\* setup_rabbitmq_connection() calls sys.exit(1) when the connection fails:
\* SystemExit is no Exception, so the `except Exception` of
\* send_start_command does not catch it and the script ends; a failure of
\* exchange_declare or basic_publish is caught and gives False; otherwise the
\* command is published and the result is True
send_start_command ==
    /\ composer.todo # <<>>
    /\ \E outcome \in {"ok", "unreachable", "publish_failed"} :
          LET service_name == Head(composer.todo)
              rest == Tail(composer.todo)
          IN  composer' =
                 CASE outcome = "unreachable" ->
                        [composer EXCEPT !.todo = <<>>, !.exit = "1"]
                   [] outcome = "publish_failed" ->
                        [composer EXCEPT
                            !.todo = rest,
                            !.results = Put(@, service_name, "False"),
                            !.exit = IF rest = <<>> THEN "0" ELSE "none"]
                   [] outcome = "ok" ->
                        [composer EXCEPT
                            !.todo = rest,
                            !.results = Put(@, service_name, "True"),
                            !.sent = Append(@, service_name),
                            !.exit = IF rest = <<>> THEN "0" ELSE "none"]
    /\ UNCHANGED <<queues, bindings, channel, nextId, lastSend, consumer, consuming,
                   invoked, settled, lastDelivery, pending_requests, displayed,
                   nextReq, now, client, loop, waiting, pc, declared,
                   consumer_tags, callbacks, supervisor, rmq, listener,
                   events>>

NextComposer ==
    \/ \E service \in {"all", "messaging"} : ComposerMain(service)
    \/ send_start_command

SpecComposer == InitSend /\ [][NextComposer]_vars

\* C38: start_all_services attempts a start command for each of the four
\* services and has a True/False result for every one of them: when a run
\* for all services is over, each service has its result, whatever failed
\* on the way.
C38_EveryServiceHasResult ==
    (composer.mode = "all" /\ composer.todo = <<>>) =>
        /\ DOMAIN composer.results = {"frontend", "backend", "database", "messaging"}
        /\ \A service \in DOMAIN composer.results :
              composer.results[service] \in {"True", "False"}

(***************************************************************************)
(* producer.py and consumer.py: event notifications                        *)
(***************************************************************************)
\* ProducerMessage(): connects and declares the three queues (non-durable);
\* an AMQPConnectionError ends the process with sys.exit(1)
ProducerMessage ==
    /\ events.producer # "connected"
    /\ \E outcome \in {"ok", "unreachable"} :
          LET qd == queue_declare(declared,
                                  <<Chars("event-notifications"), Chars("artist-updates"),
                                    Chars("user-preferences")>>, "transient")
          IN  /\ declared' = IF outcome = "ok" THEN qd.declared ELSE declared
              /\ events' = [events EXCEPT
                               !.producer = IF outcome = "ok" /\ qd.ok THEN "connected"
                                            ELSE "exit"]
    /\ UNCHANGED <<queues, bindings, channel, nextId, lastSend, consumer, consuming,
                   invoked, settled, lastDelivery, pending_requests, displayed,
                   nextReq, now, client, loop, waiting, pc,
                   consumer_tags, callbacks, supervisor, rmq, listener, composer>>

\* ProducerMessage.publish_event(event_data): basic_publish(exchange='',
\* routing_key='event_notifications', body="Welcome user"). The default
\* exchange delivers to the queue named by the routing key, if there is one,
\* and drops the message otherwise; on a closed connection the publish raises
\* and the exception is printed
publish_event ==
    /\ events.producer \in {"connected", "closed"}
    /\ nextId < MaxMsgs
    /\ LET routing_key == Chars("event_notifications")
           m == Message(nextId + 1, DefaultExchange, routing_key, 0, None, None,
                        RawText, 0)
           sent == events.producer = "connected"
       IN  /\ queues' = IF sent /\ declared[routing_key] # "absent"
                         THEN Route(queues, bindings, m) ELSE queues
           /\ nextId' = IF sent THEN nextId + 1 ELSE nextId
           /\ events' = IF sent THEN [events EXCEPT !.published = Append(@, m.id)]
                         ELSE events
           /\ lastSend' = [api |-> "publish_event", broker |-> "producer",
                           target |-> "event_notifications",
                           result |-> "None",
                           delta |-> Queued(queues') - Queued(queues),
                           id |-> IF sent THEN m.id ELSE 0,
                           payload |-> EmptyDict]
    /\ UNCHANGED <<bindings, channel, consumer, consuming,
                   invoked, settled, lastDelivery, pending_requests, displayed,
                   nextReq, now, client, loop, waiting, pc, declared,
                   consumer_tags, callbacks, supervisor, rmq, listener, composer>>

\* ProducerMessage.close()
ProducerClose ==
    /\ events.producer = "connected"
    /\ events' = [events EXCEPT !.producer = "closed"]
    /\ UNCHANGED <<queues, bindings, channel, nextId, lastSend, consumer, consuming,
                   invoked, settled, lastDelivery, pending_requests, displayed,
                   nextReq, now, client, loop, waiting, pc, declared,
                   consumer_tags, callbacks, supervisor, rmq, listener, composer>>

\* consumer.py main(): declares its three queues and consumes each of them
\* with auto_ack=True; start_consuming then hands every message of these
\* queues to the queue's callback (event_notification_callback and the two
\* others print what they get, a body that is no JSON included)
ConsumerMain ==
    /\ IF events.consumer = "none"
       THEN LET qd == queue_declare(declared,
                                    <<Chars("event-notifications"), Chars("artist-updates"),
                                      Chars("user-preferences")>>, "transient")
            IN  /\ declared' = qd.declared
                /\ events' = [events EXCEPT
                                 !.consumer = IF qd.ok THEN "consuming" ELSE "exit"]
                /\ UNCHANGED queues
       ELSE /\ events.consumer = "consuming"
            /\ \E q \in ConsumerQueues :
                  /\ Len(queues[q]) > 0
                  /\ queues' = [queues EXCEPT ![q] = Tail(@)]
                  /\ events' = [events EXCEPT
                                   !.received = Append(@, Head(queues[q]).id)]
            /\ UNCHANGED declared
    /\ UNCHANGED <<bindings, channel, nextId, lastSend, consumer, consuming,
                   invoked, settled, lastDelivery, pending_requests, displayed,
                   nextReq, now, client, loop, waiting, pc,
                   consumer_tags, callbacks, supervisor, rmq, listener, composer>>

\* backend_example.py startup_event: mq_client.declare_queue(EVENT_QUEUE),
\* durable by default
startup_event ==
    /\ declared[EVENT_QUEUE] = "absent"
    /\ declared' = queue_declare(declared, <<EVENT_QUEUE>>, "durable").declared
    /\ UNCHANGED <<queues, bindings, channel, nextId, lastSend, consumer, consuming,
                   invoked, settled, lastDelivery, pending_requests, displayed,
                   nextReq, now, client, loop, waiting, pc,
                   consumer_tags, callbacks, supervisor, rmq, listener, composer,
                   events>>

NextProducer ==
    \/ ProducerMessage
    \/ publish_event
    \/ ProducerClose
    \/ ConsumerMain
    \/ startup_event

SpecProducer == InitSend /\ [][NextProducer]_vars

\* C39: every event published by publish_event is routed to a queue that the
\* producer declared and that consumer.py consumes, so that the consumer's
\* handler receives it: a published event is in one of these queues or has
\* been received by the consumer.
C39_EventRouted ==
    \A i \in 1..Len(events.published) :
        \/ \E j \in 1..Len(events.received) : events.received[j] = events.published[i]
        \/ \E q \in ConsumerQueues :
              /\ declared[q] # "absent"
              /\ \E k \in 1..Len(queues[q]) : queues[q][k].id = events.published[i]

====
